---- MODULE Spec2Model ----
(***************************************************************************)
(* org-viewer: the structured-text codec of MarkdownView.tsx               *)
(* (generateMarkdown / parseMarkdown) and the CSV import engine of         *)
(* csvImport.ts (parseCsv / analyseImport).                                *)
(*                                                                         *)
(* Text is modelled as TLA+ strings, i.e. sequences of characters: Len,    *)
(* SubSeq and \o are the only primitives used on them.                     *)
(***************************************************************************)
EXTENDS Integers, Sequences, FiniteSets, TLC

(***************************************************************************)
(* JavaScript string primitives                                            *)
(***************************************************************************)

\* s[i] of a string, 1-based
CharAt(s, i) == SubSeq(s, i, i)

\* the characters String.prototype.trim and the regex class \s remove
\* (restricted to the ones that can occur inside one line of text)
IsSpace(c) == c \in {" ", "\t"}

Digits == {"0", "1", "2", "3", "4", "5", "6", "7", "8", "9"}
IsDigit(c) == c \in Digits

UpperAlpha == "ABCDEFGHIJKLMNOPQRSTUVWXYZ"
LowerAlpha == "abcdefghijklmnopqrstuvwxyz"

UpperSet == {CharAt(UpperAlpha, k) : k \in 1..26}
LowerSet == {CharAt(LowerAlpha, k) : k \in 1..26}
LowerOf == [c \in UpperSet |-> CharAt(LowerAlpha, CHOOSE k \in 1..26 : CharAt(UpperAlpha, k) = c)]
UpperOf == [c \in LowerSet |-> CharAt(UpperAlpha, CHOOSE k \in 1..26 : CharAt(LowerAlpha, k) = c)]

\* one character of String.prototype.toLowerCase
LowerChar(c) == IF c \in UpperSet THEN LowerOf[c] ELSE c

\* one character of String.prototype.toUpperCase
UpperChar(c) == IF c \in LowerSet THEN UpperOf[c] ELSE c

RECURSIVE ToLower(_)
ToLower(s) == IF s = "" THEN "" ELSE LowerChar(CharAt(s, 1)) \o ToLower(Tail(s))

RECURSIVE ToUpper(_)
ToUpper(s) == IF s = "" THEN "" ELSE UpperChar(CharAt(s, 1)) \o ToUpper(Tail(s))

RECURSIVE TrimStart(_)
TrimStart(s) == IF s # "" /\ IsSpace(CharAt(s, 1)) THEN TrimStart(Tail(s)) ELSE s

RECURSIVE TrimEnd(_)
TrimEnd(s) ==
    IF s # "" /\ IsSpace(CharAt(s, Len(s)))
    THEN TrimEnd(SubSeq(s, 1, Len(s) - 1)) ELSE s

\* String.prototype.trim
Trim(s) == TrimEnd(TrimStart(s))

\* String.prototype.startsWith
StartsWith(s, p) == Len(s) >= Len(p) /\ SubSeq(s, 1, Len(p)) = p

\* startsWith under the regex flag i
StartsWithCI(s, p) == Len(s) >= Len(p) /\ ToLower(SubSeq(s, 1, Len(p))) = ToLower(p)

EndsWith(s, p) == Len(s) >= Len(p) /\ SubSeq(s, Len(s) - Len(p) + 1, Len(s)) = p

\* String.prototype.slice(from) with a 0-based from, as a 1-based suffix
SliceFrom(s, from0) == SubSeq(s, from0 + 1, Len(s))

\* String.prototype.includes
Includes(s, p) == \E k \in 1..(Len(s) - Len(p) + 1) : SubSeq(s, k, k + Len(p) - 1) = p

\* 1-based position of the last occurrence of character c, 0 when there is none
\* (String.prototype.lastIndexOf returns this minus one)
LastPos(s, c) ==
    IF \E k \in 1..Len(s) : CharAt(s, k) = c
    THEN CHOOSE k \in 1..Len(s) :
            CharAt(s, k) = c /\ \A m \in (k + 1)..Len(s) : CharAt(s, m) # c
    ELSE 0

\* 1-based position of the first occurrence of character c, 0 when there is none
FirstPos(s, c) ==
    IF \E k \in 1..Len(s) : CharAt(s, k) = c
    THEN CHOOSE k \in 1..Len(s) :
            CharAt(s, k) = c /\ \A m \in 1..(k - 1) : CharAt(s, m) # c
    ELSE 0

\* String.prototype.split on a one-character separator
RECURSIVE Split(_, _)
Split(s, c) ==
    LET k == FirstPos(s, c)
    IN  IF k = 0 THEN <<s>>
        ELSE <<SubSeq(s, 1, k - 1)>> \o Split(SubSeq(s, k + 1, Len(s)), c)

\* Array.prototype.join
RECURSIVE Join(_, _)
Join(parts, sep) ==
    IF parts = <<>> THEN ""
    ELSE IF Len(parts) = 1 THEN parts[1]
    ELSE parts[1] \o sep \o Join(Tail(parts), sep)

\* Array.prototype.filter
Filter(seq, Keep(_)) == SelectSeq(seq, Keep)

\* Array.prototype.map
Map(seq, F(_)) == [k \in 1..Len(seq) |-> F(seq[k])]

AllDigits(s) == s # "" /\ \A k \in 1..Len(s) : IsDigit(CharAt(s, k))

DigitOf == [c \in Digits |-> CHOOSE d \in 0..9 : CharAt("0123456789", d + 1) = c]
DigitVal(c) == DigitOf[c]

\* parseInt(s, 10) of a string of decimal digits
RECURSIVE ParseInt(_)
ParseInt(s) ==
    IF s = "" THEN 0
    ELSE 10 * ParseInt(SubSeq(s, 1, Len(s) - 1)) + DigitVal(CharAt(s, Len(s)))

\* String(n) of a non-negative integer
RECURSIVE IntToStr(_)
IntToStr(n) ==
    IF n < 10 THEN CharAt("0123456789", n + 1)
    ELSE IntToStr(n \div 10) \o CharAt("0123456789", (n % 10) + 1)

\* String.prototype.repeat of '#'
RECURSIVE Hashes(_)
Hashes(n) == IF n = 0 THEN "" ELSE "#" \o Hashes(n - 1)

(***************************************************************************)
(* types/org.ts                                                            *)
(***************************************************************************)

Roles == {"engineer", "senior_engineer", "staff_engineer", "engineering_manager",
          "head_of_engineering", "principal_engineer"}

Locations == {"onshore", "nearshore", "offshore"}

EmployeeTypes == {"employee", "contractor"}

ROLE_LABELS ==
    [r \in Roles |->
        CASE r = "engineer" -> "Engineer"
          [] r = "senior_engineer" -> "Senior Engineer"
          [] r = "staff_engineer" -> "Staff Engineer"
          [] r = "engineering_manager" -> "Engineering Manager"
          [] r = "head_of_engineering" -> "Head of Engineering"
          [] r = "principal_engineer" -> "Principal Engineer"]

\* An optional field (name?: string, vendor?: string, manager?: Person, ...)
\* is <<>> when undefined and <<v>> when set to v.
None == <<>>
Some(v) == <<v>>
IsSome(o) == o # <<>>
\* JavaScript truthiness of an optional string: undefined and '' are falsy
Truthy(o) == o # <<>> /\ o[1] # ""

(***************************************************************************)
(* MarkdownView.tsx: parsing                                               *)
(*                                                                         *)
(* A local constant of the code that is read several times is passed on    *)
(* as an operator parameter (const x = e; ...x...x... becomes F(e) with    *)
(* F(x) == ...x...x...), so that it is computed once.                      *)
(***************************************************************************)

RoleKeys == [r \in Roles |-> ToLower(ROLE_LABELS[r])]

\* ROLE_FROM_LABEL[key]: the role whose lower-cased label is the key, or None
ROLE_FROM_LABEL(key) ==
    IF \E r \in Roles : RoleKeys[r] = key
    THEN Some(CHOOSE r \in Roles : RoleKeys[r] = key)
    ELSE None

DefaultProps == [type |-> "employee", location |-> "onshore", vendor |-> None]

\* the loop body of parseProps, on the lower-cased token
PropsTokenLower(props, part, lower) ==
    IF lower = "contractor" THEN [props EXCEPT !.type = "contractor"]
    ELSE IF lower = "employee" THEN [props EXCEPT !.type = "employee"]
    ELSE IF lower \in {"onshore", "nearshore", "offshore"}
         THEN [props EXCEPT !.location = lower]
    ELSE [props EXCEPT !.vendor = Some(part)]

PropsToken(props, part) == PropsTokenLower(props, part, ToLower(part))

RECURSIVE PropsLoop(_, _)
PropsLoop(props, parts) ==
    IF parts = <<>> THEN props
    ELSE PropsLoop(PropsToken(props, parts[1]), Tail(parts))

\* EmployeeRule left out: the tokens of the brackets stand as written
EmployeeRuleSkipped(props) == props

\* the closing rule of parseProps: employees are always onshore, without vendor
EmployeeRule(props) ==
    IF props.type = "employee"
    THEN [props EXCEPT !.location = "onshore", !.vendor = None]
    ELSE props

IsNonEmpty(t) == t # ""

parseProps(bracketStr) ==
    EmployeeRule(PropsLoop(DefaultProps,
        Filter(Map(Split(Trim(SubSeq(bracketStr, 2, Len(bracketStr) - 1)), ","), Trim),
               IsNonEmpty)))

\* '[' at k with no ']' between it and the end of t
OpensBracket(t, k) ==
    CharAt(t, k) = "[" /\ \A m \in (k + 1)..(Len(t) - 1) : CharAt(t, m) # "]"

BracketStartTrimmed(t) ==
    IF Len(t) >= 2 /\ CharAt(t, Len(t)) = "]" /\ \E k \in 1..(Len(t) - 1) : OpensBracket(t, k)
    THEN CHOOSE k \in 1..(Len(t) - 1) :
            OpensBracket(t, k) /\ \A m \in 1..(k - 1) : ~OpensBracket(t, m)
    ELSE 0

\* text.match(/\[([^\]]*)\]\s*$/): the 1-based position where the match starts
\* (match.index + 1), 0 when there is no match. The match starts at the
\* leftmost '[' with no ']' between it and the ']' that ends the text.
BracketStart(text) == BracketStartTrimmed(TrimEnd(text))

SplitBracketAt(trimmed, b) ==
    IF b > 0
    THEN [props |-> parseProps(SubSeq(trimmed, b, Len(trimmed))),
          mainPart |-> Trim(SubSeq(trimmed, 1, b - 1))]
    ELSE [props |-> DefaultProps, mainPart |-> trimmed]

\* the props and the main part of a person text (lines 199-205 and 256-262)
SplitBracket(trimmed) == SplitBracketAt(trimmed, BracketStart(trimmed))

\* number of leading decimal digits
RECURSIVE DigitRun(_)
DigitRun(s) == IF s # "" /\ IsDigit(CharAt(s, 1)) THEN 1 + DigitRun(Tail(s)) ELSE 0

QuantityMatchesAt(mainPart, d) ==
    /\ d >= 1
    /\ Len(mainPart) >= d + 3
    /\ LowerChar(CharAt(mainPart, d + 1)) = "x"
    /\ IsSpace(CharAt(mainPart, d + 2))
    /\ TrimStart(SubSeq(mainPart, d + 3, Len(mainPart))) # ""

\* mainPart.match(/^(\d+)x\s+(.+)$/i)
QuantityMatches(mainPart) == QuantityMatchesAt(mainPart, DigitRun(mainPart))

\* Person.location is optional in types/org.ts, so it is Some(location) here
PersonOf(name, role, props) ==
    [name |-> name, role |-> role, type |-> props.type,
     location |-> Some(props.location), vendor |-> props.vendor]

UnknownRole(roleName) == "Unknown role \"" \o roleName \o "\""

\* count persons of a looked-up role, or the unknown-role error
RolePersons(role, roleName, name, count, props) ==
    IF role = None
    THEN [persons |-> <<>>, error |-> Some(UnknownRole(roleName))]
    ELSE [persons |-> [k \in 1..count |-> PersonOf(name, role[1], props)],
          error |-> None]

LookupPersons(roleName, name, count, props) ==
    RolePersons(ROLE_FROM_LABEL(ToLower(roleName)), roleName, name, count, props)

\* the "Nx Role" branch (lines 208-221)
QuantityPersons(mainPart, d, props) ==
    LookupPersons(Trim(SubSeq(mainPart, d + 2, Len(mainPart))), None,
                  ParseInt(SubSeq(mainPart, 1, d)), props)

\* the "Name, Role" branch (lines 224-233) and the bare-role branch (236-240)
NamedOrBarePersons(mainPart, commaPos, props) ==
    IF commaPos # 0
    THEN LookupPersons(Trim(SubSeq(mainPart, commaPos + 1, Len(mainPart))),
                       Some(Trim(SubSeq(mainPart, 1, commaPos - 1))), 1, props)
    ELSE LookupPersons(mainPart, None, 1, props)

PersonsOfParts(mainPart, props) ==
    IF QuantityMatches(mainPart)
    THEN QuantityPersons(mainPart, DigitRun(mainPart), props)
    ELSE NamedOrBarePersons(mainPart, LastPos(mainPart, ","), props)

PersonsOfSplit(sb) == PersonsOfParts(sb.mainPart, sb.props)

PersonsOfTrimmed(trimmed) ==
    IF trimmed = "" THEN [persons |-> <<>>, error |-> Some("Empty person line")]
    ELSE PersonsOfSplit(SplitBracket(trimmed))

parsePersonLine(text) == PersonsOfTrimmed(Trim(text))

StripAfterTrimEnd(s, t) ==
    IF t # "" /\ CharAt(t, Len(t)) = "," THEN SubSeq(t, 1, Len(t) - 1) ELSE s

\* mainPart.replace(/,\s*$/, '')
StripTrailingComma(s) == StripAfterTrimEnd(s, TrimEnd(s))

\* the fallback of parseLeadershipLine: the text after the prefix is a name
NameOnlyPerson(mainPart, expectedRole, props) ==
    [person |-> Some(PersonOf(IF mainPart = "" THEN None ELSE Some(mainPart),
                              expectedRole, props)),
     error |-> None]

NameOnlyOfSplit(sb, expectedRole) ==
    NameOnlyPerson(Trim(StripTrailingComma(sb.mainPart)), expectedRole, sb.props)

LeaderOfResult(result, after, prefix, expectedRole) ==
    IF result.error # None
    THEN NameOnlyOfSplit(SplitBracket(after), expectedRole)
    ELSE IF Len(result.persons) # 1
    THEN [person |-> None,
          error |-> Some("Expected exactly one person for \"" \o prefix \o "\"")]
    ELSE [person |-> Some(result.persons[1]), error |-> None]

LeaderOfAfter(after, prefix, expectedRole) ==
    IF after = ""
    THEN [person |-> None,
          error |-> Some("Missing person details after \"" \o prefix \o "\"")]
    ELSE LeaderOfResult(parsePersonLine(after), after, prefix, expectedRole)

parseLeadershipLine(text, prefix, expectedRole) ==
    LeaderOfAfter(Trim(SliceFrom(text, Len(prefix))), prefix, expectedRole)

\* trimmed.match(/^#{n}\s+(.+)$/) for a trimmed line
HeadingMatch(trimmed, n) ==
    /\ Len(trimmed) >= n + 2
    /\ SubSeq(trimmed, 1, n) = Hashes(n)
    /\ IsSpace(CharAt(trimmed, n + 1))

\* the captured group of a heading match, trimmed
HeadingText(trimmed, n) == Trim(SubSeq(trimmed, n + 2, Len(trimmed)))

\* trimmed.match(/^<prefix>\s*(.+)$/i) for a trimmed line
PrefixMatch(trimmed, prefix) ==
    StartsWithCI(trimmed, prefix) /\ Len(trimmed) > Len(prefix)

\* the rest of the target suffix after its digits:  % onshore target )
TargetTail4(r5) == StartsWith(r5, ")") /\ TrimStart(SubSeq(r5, 2, Len(r5))) = ""
TargetTail3(r4) == StartsWithCI(r4, "target") /\ TargetTail4(SubSeq(r4, 7, Len(r4)))
TargetTail2(r3) == StartsWithCI(r3, "onshore") /\ TargetTail3(TrimStart(SubSeq(r3, 8, Len(r3))))
TargetTail1(r2) == StartsWith(r2, "%") /\ TargetTail2(TrimStart(SubSeq(r2, 2, Len(r2))))
TargetDigits(r1, d) == d >= 1 /\ TargetTail1(SubSeq(r1, d + 1, Len(r1)))
TargetAfterParen(r1) == TargetDigits(r1, DigitRun(r1))

\* whether /\((\d+)%\s*onshore\s*target\)\s*$/i matches headingText from position k
TargetMatchAt(h, k) == CharAt(h, k) = "(" /\ TargetAfterParen(SubSeq(h, k + 1, Len(h)))

\* 1-based start of the target suffix of a portfolio heading, 0 when absent
TargetStart(h) ==
    IF \E k \in 1..Len(h) : TargetMatchAt(h, k)
    THEN CHOOSE k \in 1..Len(h) :
            TargetMatchAt(h, k) /\ \A m \in 1..(k - 1) : ~TargetMatchAt(h, m)
    ELSE 0

\* the parser's local state on entry to the loop (lines 283-297)
ParserInit ==
    [portfolioName |-> None, onshoreTarget |-> 50, headOfEngineering |-> None,
     principalEngineers |-> <<>>, divisions |-> <<>>, directGroups |-> <<>>,
     currentDivision |-> None, currentGroup |-> None, currentTeam |-> None,
     groupInDivision |-> FALSE, errors |-> <<>>, nextId |-> 1]

\* generateId(): crypto.randomUUID() is modelled as a fresh-identifier supply
generateId(ps) == ps.nextId
Minted(ps, n) == [ps EXCEPT !.nextId = @ + n]

\* finishTeam that leaves the pushed team open
finishTeamKeepsOpen(ps) ==
    IF ps.currentTeam # None /\ ps.currentGroup # None
    THEN [ps EXCEPT
            !.currentGroup = Some([ps.currentGroup[1] EXCEPT
                                     !.teams = Append(@, ps.currentTeam[1])])]
    ELSE ps

finishTeam(ps) ==
    IF ps.currentTeam # None /\ ps.currentGroup # None
    THEN [ps EXCEPT
            !.currentGroup = Some([ps.currentGroup[1] EXCEPT
                                     !.teams = Append(@, ps.currentTeam[1])]),
            !.currentTeam = None]
    ELSE ps

\* finishGroup after its call of finishTeam
CommitGroup(p1) ==
    IF p1.currentGroup # None
    THEN IF p1.groupInDivision /\ p1.currentDivision # None
         THEN [p1 EXCEPT
                 !.currentDivision = Some([p1.currentDivision[1] EXCEPT
                                             !.groups = Append(@, p1.currentGroup[1])]),
                 !.currentGroup = None]
         ELSE [p1 EXCEPT !.directGroups = Append(@, p1.currentGroup[1]),
                         !.currentGroup = None]
    ELSE p1

finishGroup(ps) == CommitGroup(finishTeam(ps))

\* finishDivision after its call of finishGroup
CommitDivision(p1) ==
    IF p1.currentDivision # None
    THEN [p1 EXCEPT !.divisions = Append(@, p1.currentDivision[1]),
                    !.currentDivision = None]
    ELSE p1

finishDivision(ps) == CommitDivision(finishGroup(ps))

AddError(ps, lineNum, message) ==
    [ps EXCEPT !.errors = Append(@, [line |-> lineNum, message |-> message])]

NewTeam(id, name) == [id |-> id, name |-> name, members |-> <<>>]
NewGroup(id, name) ==
    [id |-> id, name |-> name, manager |-> None, managedBy |-> None,
     staffEngineers |-> <<>>, teams |-> <<>>]
NewDivision(id, name) == [id |-> id, name |-> name, groups |-> <<>>]

\* { id: generateId(), ...person }
WithId(id, person) ==
    [id |-> id, name |-> person.name, role |-> person.role, type |-> person.type,
     location |-> person.location, vendor |-> person.vendor]

OpenTeam(p1, name) ==
    Minted([p1 EXCEPT !.currentTeam = Some(NewTeam(generateId(p1), name))], 1)

OpenGroup(p1, name, inDivision) ==
    Minted([p1 EXCEPT !.currentGroup = Some(NewGroup(generateId(p1), name)),
                      !.groupInDivision = inDivision], 1)

OpenDivision(p1, name) ==
    Minted([p1 EXCEPT !.currentDivision = Some(NewDivision(generateId(p1), name)),
                      !.groupInDivision = FALSE], 1)

HeadingWithTarget(ps, headingText, t) ==
    IF t > 0
    THEN [ps EXCEPT
            !.onshoreTarget =
                ParseInt(SubSeq(headingText, t + 1,
                                t + DigitRun(SubSeq(headingText, t + 1, Len(headingText))))),
            !.portfolioName = Some(Trim(SubSeq(headingText, 1, t - 1)))]
    ELSE [ps EXCEPT !.portfolioName = Some(headingText)]

PortfolioHeading(ps, headingText) ==
    HeadingWithTarget(ps, headingText, TargetStart(headingText))

\* "# Portfolio heading" branch (lines 339-350)
StepPortfolioHeading(ps, trimmed) == PortfolioHeading(ps, HeadingText(trimmed, 1))

\* "#### Team heading" branch (lines 353-362)
StepH4(ps, trimmed, lineNum) ==
    IF ps.currentGroup = None
    THEN AddError(ps, lineNum, "Team heading (####) found outside of a group")
    ELSE OpenTeam(finishTeam(ps), HeadingText(trimmed, 4))

\* "### Group or Team heading" branch (lines 365-385)
\* StepH3 that looks for an open group before an open division
StepH3GroupFirst(ps, trimmed, lineNum) ==
    IF ps.currentGroup # None
    THEN OpenTeam(finishTeam(ps), HeadingText(trimmed, 3))
    ELSE IF ps.currentDivision # None
    THEN OpenGroup(finishGroup(ps), HeadingText(trimmed, 3), TRUE)
    ELSE AddError(ps, lineNum,
                  "Heading ### found outside expected context (no division or group)")

StepH3(ps, trimmed, lineNum) ==
    IF ps.currentDivision # None
    THEN OpenGroup(finishGroup(ps), HeadingText(trimmed, 3), TRUE)
    ELSE IF ps.currentGroup # None
    THEN OpenTeam(finishTeam(ps), HeadingText(trimmed, 3))
    ELSE AddError(ps, lineNum,
                  "Heading ### found outside expected context (no division or group)")

\* headingText.match(/^Division:\s*(.+)$/i)
DivisionMatch(headingText) == PrefixMatch(headingText, "Division:")

DivisionOrGroup(p1, headingText) ==
    IF DivisionMatch(headingText)
    THEN OpenDivision(p1, Trim(SliceFrom(headingText, Len("Division:"))))
    ELSE OpenGroup(p1, headingText, FALSE)

\* "## Division or Group heading" branch (lines 388-408)
StepH2(ps, trimmed) == DivisionOrGroup(finishDivision(ps), HeadingText(trimmed, 2))

SetHeadOfEngineering(ps, person) ==
    Minted([ps EXCEPT !.headOfEngineering = Some(WithId(generateId(ps), person))], 1)

PushPrincipalEngineer(ps, person) ==
    Minted([ps EXCEPT !.principalEngineers = Append(@, WithId(generateId(ps), person))], 1)

SetManager(ps, person) ==
    Minted([ps EXCEPT !.currentGroup =
                Some([ps.currentGroup[1] EXCEPT
                        !.manager = Some(WithId(generateId(ps), person))])], 1)

PushStaffEngineer(ps, person) ==
    Minted([ps EXCEPT !.currentGroup =
                Some([ps.currentGroup[1] EXCEPT
                        !.staffEngineers = Append(@, WithId(generateId(ps), person))])], 1)

\* if (result.error) errors.push(...) else if (result.person) <slot> = ...
LeaderResult(ps, lineNum, result, slot) ==
    IF result.error # None THEN AddError(ps, lineNum, result.error[1])
    ELSE IF result.person # None
    THEN CASE slot = "hoe" -> SetHeadOfEngineering(ps, result.person[1])
           [] slot = "pe" -> PushPrincipalEngineer(ps, result.person[1])
           [] slot = "manager" -> SetManager(ps, result.person[1])
           [] slot = "staff" -> PushStaffEngineer(ps, result.person[1])
    ELSE ps

\* "Head of Engineering:" branch (lines 412-421)
StepHeadOfEngineering(ps, trimmed, lineNum) ==
    LeaderResult(ps, lineNum,
                 parseLeadershipLine(trimmed, "Head of Engineering:", "head_of_engineering"),
                 "hoe")

\* "Principal Engineer:" branch (lines 423-432)
StepPrincipalEngineer(ps, trimmed, lineNum) ==
    LeaderResult(ps, lineNum,
                 parseLeadershipLine(trimmed, "Principal Engineer:", "principal_engineer"),
                 "pe")

\* "Manager:" branch (lines 436-449)
StepManager(ps, trimmed, lineNum) ==
    IF ps.currentGroup = None
    THEN AddError(ps, lineNum, "Manager line found outside of a group")
    ELSE LeaderResult(ps, lineNum,
                      parseLeadershipLine(trimmed, "Manager:", "engineering_manager"),
                      "manager")

\* "Managed by:" branch (lines 452-460)
StepManagedBy(ps, trimmed, lineNum) ==
    IF ps.currentGroup = None
    THEN AddError(ps, lineNum, "Managed by line found outside of a group")
    ELSE [ps EXCEPT !.currentGroup =
            Some([ps.currentGroup[1] EXCEPT
                    !.managedBy = Some(Trim(SliceFrom(trimmed, Len("Managed by:"))))])]

\* "Staff:" branch (lines 463-476)
StepStaff(ps, trimmed, lineNum) ==
    IF ps.currentGroup = None
    THEN AddError(ps, lineNum, "Staff line found outside of a group")
    ELSE LeaderResult(ps, lineNum,
                      parseLeadershipLine(trimmed, "Staff:", "staff_engineer"), "staff")

\* PushMembers with one generateId() call for the whole list item
PushMembersOneId(ps, persons) ==
    Minted([ps EXCEPT !.currentTeam =
                Some([ps.currentTeam[1] EXCEPT
                        !.members = @ \o [k \in 1..Len(persons) |->
                                            WithId(generateId(ps), persons[k])]])],
           1)

\* for (const p of result.persons) members.push({ id: generateId(), ...p })
PushMembers(ps, persons) ==
    Minted([ps EXCEPT !.currentTeam =
                Some([ps.currentTeam[1] EXCEPT
                        !.members = @ \o [k \in 1..Len(persons) |->
                                            WithId(generateId(ps) + k - 1, persons[k])]])],
           Len(persons))

ListResult(ps, lineNum, result) ==
    IF result.error # None THEN AddError(ps, lineNum, result.error[1])
    ELSE PushMembers(ps, result.persons)

\* "- list item" branch (lines 479-494)
StepListItem(ps, trimmed, lineNum) ==
    IF ps.currentTeam = None
    THEN AddError(ps, lineNum,
                  "List item found outside of a team. Place it under a team heading.")
    ELSE ListResult(ps, lineNum,
                    parsePersonLine(TrimStart(SubSeq(trimmed, 3, Len(trimmed)))))

\* StepOther that gives up on the line without recording it
StepOtherSilent(ps, trimmed, lineNum) == ps

\* the last branch (lines 496-500)
StepOther(ps, trimmed, lineNum) ==
    IF ~StartsWith(trimmed, ">") /\ ~StartsWith(trimmed, "---") /\ ~StartsWith(trimmed, "<!--")
    THEN AddError(ps, lineNum, "Unrecognized line: \"" \o trimmed \o "\"")
    ELSE ps

\* LineKind without the test of line 411 around the leadership branches
LineKindLeadersAnywhere(ps, trimmed) ==
    IF trimmed = "" THEN "blank"
    ELSE IF HeadingMatch(trimmed, 1) /\ ~StartsWith(trimmed, "##") THEN "h1"
    ELSE IF HeadingMatch(trimmed, 4) THEN "h4"
    ELSE IF HeadingMatch(trimmed, 3) THEN "h3"
    ELSE IF HeadingMatch(trimmed, 2) THEN "h2"
    ELSE IF PrefixMatch(trimmed, "Head of Engineering:") THEN "hoe"
    ELSE IF PrefixMatch(trimmed, "Principal Engineer:") THEN "pe"
    ELSE IF PrefixMatch(trimmed, "Manager:") THEN "manager"
    ELSE IF PrefixMatch(trimmed, "Managed by:") THEN "managedBy"
    ELSE IF PrefixMatch(trimmed, "Staff:") THEN "staff"
    ELSE IF Len(trimmed) >= 3 /\ CharAt(trimmed, 1) = "-" /\ IsSpace(CharAt(trimmed, 2))
         THEN "list"
    ELSE "other"

\* which branch of the loop body takes a line, in the order the code tests them
LineKind(ps, trimmed) ==
    IF trimmed = "" THEN "blank"
    ELSE IF HeadingMatch(trimmed, 1) /\ ~StartsWith(trimmed, "##") THEN "h1"
    ELSE IF HeadingMatch(trimmed, 4) THEN "h4"
    ELSE IF HeadingMatch(trimmed, 3) THEN "h3"
    ELSE IF HeadingMatch(trimmed, 2) THEN "h2"
    ELSE IF ps.currentDivision = None /\ ps.currentGroup = None
            /\ PrefixMatch(trimmed, "Head of Engineering:") THEN "hoe"
    ELSE IF ps.currentDivision = None /\ ps.currentGroup = None
            /\ PrefixMatch(trimmed, "Principal Engineer:") THEN "pe"
    ELSE IF PrefixMatch(trimmed, "Manager:") THEN "manager"
    ELSE IF PrefixMatch(trimmed, "Managed by:") THEN "managedBy"
    ELSE IF PrefixMatch(trimmed, "Staff:") THEN "staff"
    ELSE IF Len(trimmed) >= 3 /\ CharAt(trimmed, 1) = "-" /\ IsSpace(CharAt(trimmed, 2))
         THEN "list"
    ELSE "other"

StepOfKind(ps, trimmed, lineNum, kind) ==
    CASE kind = "blank" -> ps
      [] kind = "h1" -> StepPortfolioHeading(ps, trimmed)
      [] kind = "h4" -> StepH4(ps, trimmed, lineNum)
      [] kind = "h3" -> StepH3(ps, trimmed, lineNum)
      [] kind = "h2" -> StepH2(ps, trimmed)
      [] kind = "hoe" -> StepHeadOfEngineering(ps, trimmed, lineNum)
      [] kind = "pe" -> StepPrincipalEngineer(ps, trimmed, lineNum)
      [] kind = "manager" -> StepManager(ps, trimmed, lineNum)
      [] kind = "managedBy" -> StepManagedBy(ps, trimmed, lineNum)
      [] kind = "staff" -> StepStaff(ps, trimmed, lineNum)
      [] kind = "list" -> StepListItem(ps, trimmed, lineNum)
      [] kind = "other" -> StepOther(ps, trimmed, lineNum)

StepTrimmed(ps, trimmed, lineNum) ==
    StepOfKind(ps, trimmed, lineNum, LineKind(ps, trimmed))

\* one iteration of the loop of parseMarkdown (lines 330-501)
ParseStep(ps, line, lineNum) == StepTrimmed(ps, Trim(line), lineNum)

\* the two finalizing calls after the loop (lines 503-506)
Finalize(ps) == finishGroup(finishDivision(ps))

\* the portfolio built from the finalized state (lines 517-527)
BuiltPortfolio(p1) ==
    [name |-> p1.portfolioName[1],
     onshoreTargetPercentage |-> Some(p1.onshoreTarget),
     headOfEngineering |-> p1.headOfEngineering,
     principalEngineers |-> p1.principalEngineers,
     divisions |-> IF Len(p1.divisions) > 0 THEN Some(p1.divisions) ELSE None,
     groups |-> p1.directGroups]

\* ReturnOf without the test of errors.length: a partial tree is returned
\* together with its errors
ReturnOfPartial(p1) ==
    IF ~Truthy(p1.portfolioName)
    THEN [portfolio |-> None,
          errors |-> Append(p1.errors,
                            [line |-> 1,
                             message |-> "Missing portfolio heading (# Portfolio Name)"])]
    ELSE [portfolio |-> Some(BuiltPortfolio(p1)), errors |-> p1.errors]

\* the return statements (lines 508-527), on the finalized state
ReturnOf(p1) ==
    IF ~Truthy(p1.portfolioName)
    THEN [portfolio |-> None,
          errors |-> Append(p1.errors,
                            [line |-> 1,
                             message |-> "Missing portfolio heading (# Portfolio Name)"])]
    ELSE IF Len(p1.errors) > 0
    THEN [portfolio |-> None, errors |-> p1.errors]
    ELSE [portfolio |-> Some(BuiltPortfolio(p1)), errors |-> <<>>]

\* the code after the loop (lines 503-528): the ParseResult
ParseReturn(ps) == ReturnOf(Finalize(ps))

RECURSIVE ParseLoop(_, _, _)
ParseLoop(ps, lns, k) ==
    IF k > Len(lns) THEN ps ELSE ParseLoop(ParseStep(ps, lns[k], k), lns, k + 1)

parseMarkdown(txt) == ParseReturn(ParseLoop(ParserInit, Split(txt, "\n"), 1))

(***************************************************************************)
(* MarkdownView.tsx: generation                                            *)
(***************************************************************************)

\* parts.join(', ') inside brackets, for a contractor; '' for an employee
personProps(p) ==
    IF p.type = "employee" THEN ""
    ELSE LET loc == IF p.location # None /\ p.location[1] # "onshore"
                    THEN <<p.location[1]>> ELSE <<>>
             ven == IF Truthy(p.vendor) THEN <<p.vendor[1]>> ELSE <<>>
         IN  " [" \o Join(<<"contractor">> \o loc \o ven, ", ") \o "]"

\* p.name || 'Unnamed'
NameOrUnnamed(p) == IF Truthy(p.name) THEN p.name[1] ELSE "Unnamed"

namedPersonLine(p) == NameOrUnnamed(p) \o ", " \o ROLE_LABELS[p.role] \o personProps(p)

leaderPersonLine(p) == NameOrUnnamed(p) \o personProps(p)

groupingKey(p) ==
    p.role \o "|" \o p.type \o "|"
    \o (IF p.location # None THEN p.location[1] ELSE "onshore") \o "|"
    \o (IF p.vendor # None THEN p.vendor[1] ELSE "")

IsNamed(m) == Truthy(m.name)
IsUnnamed(m) == ~Truthy(m.name)

formatTeamMembers(members) ==
    LET named == Filter(members, IsNamed)
        unnamed == Filter(members, IsUnnamed)
        \* Map insertion order: a key enters at its first occurrence
        first == {k \in 1..Len(unnamed) :
                    \A j \in 1..(k - 1) : groupingKey(unnamed[j]) # groupingKey(unnamed[k])}
        IsFirst(k) == k \in first
        firsts == Filter([k \in 1..Len(unnamed) |-> k], IsFirst)
        count(k) == Cardinality({j \in 1..Len(unnamed) :
                                    groupingKey(unnamed[j]) = groupingKey(unnamed[k])})
        unnamedLine(k) ==
            "- " \o (IF count(k) > 1 THEN IntToStr(count(k)) \o "x " ELSE "")
            \o ROLE_LABELS[unnamed[k].role] \o personProps(unnamed[k])
        namedLine(p) == "- " \o namedPersonLine(p)
    IN  Map(firsts, unnamedLine) \o Map(named, namedLine)

generateTeamLines(team, depth) ==
    <<"", Hashes(depth + 1) \o " " \o team.name>> \o formatTeamMembers(team.members)

RECURSIVE Flatten(_)
Flatten(seqs) == IF seqs = <<>> THEN <<>> ELSE seqs[1] \o Flatten(Tail(seqs))

generateGroupMarkdown(group, depth) ==
    LET staffLine(se) == "Staff: " \o leaderPersonLine(se)
        teamLines(team) == generateTeamLines(team, depth)
        lines ==
            <<Hashes(depth) \o " " \o group.name>>
            \o (IF group.manager # None
                THEN <<"Manager: " \o leaderPersonLine(group.manager[1])>>
                ELSE IF Truthy(group.managedBy)
                THEN <<"Managed by: " \o group.managedBy[1]>>
                ELSE <<>>)
            \o Map(group.staffEngineers, staffLine)
            \o Flatten(Map(group.teams, teamLines))
    IN  Join(lines, "\n")

generateDivisionMarkdown(division) ==
    LET groupLines(k) ==
            (IF k > 1 THEN <<"">> ELSE <<>>)
            \o <<generateGroupMarkdown(division.groups[k], 3)>>
        lines == <<"## Division: " \o division.name, "">>
                 \o Flatten([k \in 1..Len(division.groups) |-> groupLines(k)])
    IN  Join(lines, "\n")

generateMarkdown(portfolio) ==
    LET target == IF portfolio.onshoreTargetPercentage # None
                  THEN portfolio.onshoreTargetPercentage[1] ELSE 50
        peLine(pe) == "Principal Engineer: " \o leaderPersonLine(pe)
        divLines(division) == <<"", generateDivisionMarkdown(division)>>
        grpLines(group) == <<"", generateGroupMarkdown(group, 2)>>
        lines ==
            <<"# " \o portfolio.name \o " (" \o IntToStr(target) \o "% onshore target)", "">>
            \o (IF portfolio.headOfEngineering # None
                THEN <<"Head of Engineering: "
                       \o leaderPersonLine(portfolio.headOfEngineering[1])>>
                ELSE <<>>)
            \o Map(portfolio.principalEngineers, peLine)
            \o (IF portfolio.divisions # None
                THEN Flatten(Map(portfolio.divisions[1], divLines)) ELSE <<>>)
            \o Flatten(Map(portfolio.groups, grpLines))
    IN  Join(lines, "\n") \o "\n"

(***************************************************************************)
(* JavaScript numbers: IEEE-754 binary64, round to nearest, ties to even   *)
(*                                                                         *)
(* A positive number is [m, e] with value m * 2^e and 2^52 <= m < 2^53; m  *)
(* is held as a sequence of limbs, least significant first. Zero has the   *)
(* empty mantissa. The scores of csvImport.ts are never negative, infinite *)
(* or subnormal.                                                           *)
(***************************************************************************)

LimbBits == 15
LimbBase == 2^LimbBits
MantissaBits == 53

\* drop the most significant limbs that are zero
RECURSIVE BTrim(_)
BTrim(a) == IF a # <<>> /\ a[Len(a)] = 0 THEN BTrim(SubSeq(a, 1, Len(a) - 1)) ELSE a

\* a + b + c for a carry c
RECURSIVE BAddC(_, _, _)
BAddC(a, b, c) ==
    IF a = <<>> /\ b = <<>> THEN (IF c = 0 THEN <<>> ELSE <<c>>)
    ELSE IF a = <<>> THEN BAddC(<<0>>, b, c)
    ELSE IF b = <<>> THEN BAddC(a, <<0>>, c)
    ELSE <<(a[1] + b[1] + c) % LimbBase>>
         \o BAddC(Tail(a), Tail(b), (a[1] + b[1] + c) \div LimbBase)

BAdd(a, b) == BAddC(a, b, 0)

\* a * s + c for one limb s
RECURSIVE BMulSmallC(_, _, _)
BMulSmallC(a, s, c) ==
    IF a = <<>> THEN (IF c = 0 THEN <<>> ELSE <<c>>)
    ELSE <<(a[1] * s + c) % LimbBase>>
         \o BMulSmallC(Tail(a), s, (a[1] * s + c) \div LimbBase)

BMulSmall(a, s) == BTrim(BMulSmallC(a, s, 0))

RECURSIVE BMul(_, _)
BMul(a, b) ==
    IF b = <<>> \/ a = <<>> THEN <<>>
    ELSE BAdd(BMulSmall(a, b[1]), <<0>> \o BMul(a, Tail(b)))

\* quotient and remainder of a by one limb d, from the most significant limb
DivOut(q, cur, d) == [q |-> <<cur \div d>> \o q, r |-> cur % d]
DivCombine(hi, limb, d) == DivOut(hi.q, hi.r * LimbBase + limb, d)

RECURSIVE BDivSmall(_, _)
BDivSmall(a, d) ==
    IF a = <<>> THEN [q |-> <<>>, r |-> 0]
    ELSE DivCombine(BDivSmall(Tail(a), d), a[1], d)

RECURSIVE BitLenSmall(_)
BitLenSmall(n) == IF n = 0 THEN 0 ELSE 1 + BitLenSmall(n \div 2)

\* number of significant bits of a trimmed number
BitLen(a) == IF a = <<>> THEN 0 ELSE LimbBits * (Len(a) - 1) + BitLenSmall(a[Len(a)])

IsNonZeroLimb(l) == l # 0

ShrOut(dv, lostLimbs) ==
    [n |-> BTrim(dv.q), sticky |-> dv.r # 0 \/ SelectSeq(lostLimbs, IsNonZeroLimb) # <<>>]

\* a shifted right by k bits, and whether a one was shifted out
BShr(a, k) ==
    IF k \div LimbBits >= Len(a)
    THEN [n |-> <<>>, sticky |-> SelectSeq(a, IsNonZeroLimb) # <<>>]
    ELSE ShrOut(BDivSmall(SubSeq(a, k \div LimbBits + 1, Len(a)), 2^(k % LimbBits)),
                SubSeq(a, 1, k \div LimbBits))

\* a shifted left by k bits
BShl(a, k) ==
    IF a = <<>> THEN <<>>
    ELSE [j \in 1..(k \div LimbBits) |-> 0] \o BMulSmall(a, 2^(k % LimbBits))

BIsOdd(a) == a # <<>> /\ a[1] % 2 = 1

\* -1, 0, 1 as a < b, a = b, a > b, for trimmed numbers
RECURSIVE BCmp(_, _)
BCmp(a, b) ==
    IF Len(a) # Len(b) THEN (IF Len(a) < Len(b) THEN -1 ELSE 1)
    ELSE IF a = <<>> THEN 0
    ELSE IF a[Len(a)] # b[Len(b)] THEN (IF a[Len(a)] < b[Len(b)] THEN -1 ELSE 1)
    ELSE BCmp(SubSeq(a, 1, Len(a) - 1), SubSeq(b, 1, Len(b) - 1))

FZero == [m |-> <<>>, e |-> 0]

\* the mantissa after rounding, renormalized when rounding carried out of it
Renormalize(m, e) ==
    IF BitLen(m) > MantissaBits THEN [m |-> BTrim(BDivSmall(m, 2).q), e |-> e + 1]
    ELSE [m |-> m, e |-> e]

RoundHalfEven(m0, guard, sticky, e) ==
    Renormalize(IF guard /\ (sticky \/ BIsOdd(m0)) THEN BAddC(m0, <<>>, 1) ELSE m0, e)

\* n2 holds the mantissa and, as its lowest bit, the guard bit
RoundGuarded(n2, sticky, e) ==
    RoundHalfEven(BTrim(BDivSmall(n2, 2).q), BIsOdd(n2), sticky, e)

RoundShifted(sh, sticky, e) == RoundGuarded(sh.n, sticky \/ sh.sticky, e)

RoundLen(n, len, e, sticky) ==
    IF len = 0 THEN FZero
    ELSE IF len <= MantissaBits
    THEN [m |-> BShl(n, MantissaBits - len), e |-> e - (MantissaBits - len)]
    ELSE RoundShifted(BShr(n, len - MantissaBits - 1), sticky, e + len - MantissaBits)

\* the binary64 nearest to n * 2^e (plus a positive rest below the last bit of
\* n when sticky), for a trimmed n
RoundNorm(n, e, sticky) == RoundLen(n, BitLen(n), e, sticky)

FMul(x, y) == RoundNorm(BMul(x.m, y.m), x.e + y.e, FALSE)

\* both mantissas at the smaller exponent
FAddAligned(x, y, e) ==
    RoundNorm(BTrim(BAdd(BShl(x.m, x.e - e), BShl(y.m, y.e - e))), e, FALSE)

FAdd(x, y) ==
    IF x.m = <<>> THEN y
    ELSE IF y.m = <<>> THEN x
    ELSE FAddAligned(x, y, IF x.e < y.e THEN x.e ELSE y.e)

\* the number of bits a quotient is carried to before rounding
QuotientBits == 5 * LimbBits

FDivOut(dv) == RoundNorm(BTrim(dv.q), 0 - QuotientBits, dv.r # 0)

\* a / b for integers 0 <= a and 0 < b below LimbBase; a decimal literal
\* such as 0.55 is FRatio(55, 100)
FRatio(a, b) ==
    IF a = 0 THEN FZero
    ELSE FDivOut(BDivSmall([j \in 1..5 |-> 0] \o <<a>>, b))

FLess(x, y) ==
    IF y.m = <<>> THEN FALSE
    ELSE IF x.m = <<>> THEN TRUE
    ELSE IF x.e # y.e THEN x.e < y.e
    ELSE BCmp(x.m, y.m) < 0

FMax(x, y) == IF FLess(x, y) THEN y ELSE x

(***************************************************************************)
(* csvImport.ts: CSV parsing and name normalisation                        *)
(***************************************************************************)

IsSpaceOrNewline(c) == IsSpace(c) \/ c = "\n"

RECURSIVE TrimTextStart(_)
TrimTextStart(s) ==
    IF s # "" /\ IsSpaceOrNewline(CharAt(s, 1)) THEN TrimTextStart(Tail(s)) ELSE s

RECURSIVE TrimTextEnd(_)
TrimTextEnd(s) ==
    IF s # "" /\ IsSpaceOrNewline(CharAt(s, Len(s)))
    THEN TrimTextEnd(SubSeq(s, 1, Len(s) - 1)) ELSE s

\* String.prototype.trim of a text of several lines
TrimText(s) == TrimTextEnd(TrimTextStart(s))

IsNonBlank(line) == Trim(line) # ""

\* RowOfParts with teamName: parts[2].trim()
RowOfPartsThirdField(parts, n, lineNumber) ==
    [portfolio |-> Trim(parts[1]),
     csvGroup |-> Trim(parts[2]),
     teamName |-> Trim(parts[3]),
     role |-> Trim(parts[n - 3]),
     location |-> Trim(parts[n - 2]),
     vendor |-> Trim(parts[n - 1]),
     name |-> Trim(parts[n]),
     lineNumber |-> lineNumber]

\* the row of one line's parts (lines 100-119); lineNumber is i + 1
RowOfParts(parts, n, lineNumber) ==
    [portfolio |-> Trim(parts[1]),
     csvGroup |-> Trim(parts[2]),
     teamName |-> Trim(Join(SubSeq(parts, 3, n - 4), ",")),
     role |-> Trim(parts[n - 3]),
     location |-> Trim(parts[n - 2]),
     vendor |-> Trim(parts[n - 1]),
     name |-> Trim(parts[n]),
     lineNumber |-> lineNumber]

RowsOfParts(parts, lineNumber) ==
    IF Len(parts) < 7 THEN <<>> ELSE <<RowOfParts(parts, Len(parts), lineNumber)>>

\* the loop of parseCsv (lines 92-120) from index k of the kept lines
RECURSIVE CsvRowsFrom(_, _)
CsvRowsFrom(lns, k) ==
    IF k > Len(lns) THEN <<>>
    ELSE RowsOfParts(Split(Trim(lns[k]), ","), k) \o CsvRowsFrom(lns, k + 1)

parseCsv(csvText) ==
    CsvRowsFrom(SelectSeq(Split(TrimText(csvText), "\n"), IsNonBlank), 1)

\* the characters normalise keeps: [a-z0-9\s&-]
KeptChars == LowerSet \cup Digits \cup {" ", "\t", "&", "-"}

RECURSIVE StripOtherChars(_)
StripOtherChars(s) ==
    IF s = "" THEN ""
    ELSE (IF CharAt(s, 1) \in KeptChars THEN CharAt(s, 1) ELSE "")
         \o StripOtherChars(Tail(s))

\* replace(/\s+/g, ' ')
RECURSIVE CollapseSpaces(_)
CollapseSpaces(s) ==
    IF s = "" THEN ""
    ELSE IF IsSpace(CharAt(s, 1)) THEN " " \o CollapseSpaces(TrimStart(s))
    ELSE CharAt(s, 1) \o CollapseSpaces(Tail(s))

normalise(s) == Trim(CollapseSpaces(StripOtherChars(ToLower(s))))

\* the alternatives of /^(mr\.?|ms\.?|mrs\.?|miss\.?|dr\.?)\s*/i in their order
Honorifics == <<"mr", "ms", "mrs", "miss", "dr">>

\* \.? and \s* after the matched alternative
AfterHonorific(rest) ==
    TrimStart(IF StartsWith(rest, ".") THEN Tail(rest) ELSE rest)

\* the first alternative that matches is the one the regular expression takes
StripHonorificAt(name, k) ==
    AfterHonorific(SubSeq(name, Len(Honorifics[k]) + 1, Len(name)))

StripHonorific(name) ==
    IF \E k \in 1..Len(Honorifics) : StartsWithCI(name, Honorifics[k])
    THEN StripHonorificAt(name,
            CHOOSE k \in 1..Len(Honorifics) :
                /\ StartsWithCI(name, Honorifics[k])
                /\ \A j \in 1..(k - 1) : ~StartsWithCI(name, Honorifics[j]))
    ELSE name

normaliseName(name) == Trim(CollapseSpaces(StripHonorific(name)))

(***************************************************************************)
(* csvImport.ts: similarity and name matching                              *)
(***************************************************************************)

IsTokenSeparator(c) == c \in {" ", "\t", "&", "-"}

\* the first token of s and the rest after it, s not starting with a separator
RECURSIVE TokenLen(_)
TokenLen(s) ==
    IF s = "" \/ IsTokenSeparator(CharAt(s, 1)) THEN 0 ELSE 1 + TokenLen(Tail(s))

\* new Set(s.split(/[\s&-]+/).filter(Boolean))
RECURSIVE Tokens(_)
Tokens(s) ==
    IF s = "" THEN {}
    ELSE IF IsTokenSeparator(CharAt(s, 1)) THEN Tokens(Tail(s))
    ELSE {SubSeq(s, 1, TokenLen(s))} \cup Tokens(SubSeq(s, TokenLen(s) + 1, Len(s)))

\* intersection / union (lines 166-173)
JaccardOf(tokensA, tokensB) ==
    IF tokensA = {} \/ tokensB = {} THEN FZero
    ELSE FRatio(Cardinality(tokensA \cap tokensB), Cardinality(tokensA \cup tokensB))

\* 0.7 + 0.3 * (shorter.length / longer.length)
ContainmentOf(shorter, longer) ==
    FAdd(FRatio(7, 10), FMul(FRatio(3, 10), FRatio(shorter, longer)))

SimilarityOfNormalised(na, nb) ==
    IF na = nb THEN FRatio(1, 1)
    ELSE IF Includes(na, nb) \/ Includes(nb, na)
    THEN (IF Len(na) < Len(nb) THEN ContainmentOf(Len(na), Len(nb))
          ELSE ContainmentOf(Len(nb), Len(na)))
    ELSE JaccardOf(Tokens(na), Tokens(nb))

similarityScore(a, b) == SimilarityOfNormalised(normalise(a), normalise(b))

\* s.split(' ').pop() || '' and s.split(' ')[0] || ''
LastWord(s) == SubSeq(s, LastPos(s, " ") + 1, Len(s))
FirstWord(s) == IF FirstPos(s, " ") = 0 THEN s ELSE SubSeq(s, 1, FirstPos(s, " ") - 1)

\* w[0]: the first character, undefined (here "") for the empty string
FirstChar(w) == IF w = "" THEN "" ELSE CharAt(w, 1)

\* NamesMatchNormalised that compares the surnames only
NamesMatchNormalisedBySurname(a, b) ==
    \/ a = b
    \/ Includes(a, b) \/ Includes(b, a)
    \/ Len(LastWord(a)) > 2 /\ LastWord(a) = LastWord(b)

NamesMatchNormalised(a, b) ==
    \/ a = b
    \/ Includes(a, b) \/ Includes(b, a)
    \/ /\ Len(LastWord(a)) > 2
       /\ LastWord(a) = LastWord(b)
       /\ FirstChar(FirstWord(a)) = FirstChar(FirstWord(b))

namesMatch(csvName, appName) ==
    /\ Truthy(appName)
    /\ NamesMatchNormalised(ToLower(normaliseName(csvName)), ToLower(normaliseName(appName[1])))

(***************************************************************************)
(* csvImport.ts: role, location and vendor mapping                         *)
(***************************************************************************)

RoleOfLabel(r) ==
    IF r = "engineer" THEN Some("engineer")
    ELSE IF r = "senior engineer" THEN Some("senior_engineer")
    ELSE IF r = "staff engineer" THEN Some("staff_engineer")
    ELSE IF r = "engineering manager" THEN Some("engineering_manager")
    ELSE IF r = "head of engineering" THEN Some("head_of_engineering")
    ELSE IF r = "principal engineer" THEN Some("principal_engineer")
    ELSE None

\* the role, or None for the code's null
mapRole(csvRole) == RoleOfLabel(Trim(ToLower(csvRole)))

LocationOfLabel(l) ==
    IF l = "offshore" THEN "offshore" ELSE IF l = "nearshore" THEN "nearshore" ELSE "onshore"

mapLocation(csvLocation) == LocationOfLabel(Trim(ToLower(csvLocation)))

mapTypeAndVendor(vendor) ==
    IF ToUpper(vendor) = "M&S" THEN [type |-> "employee", vendor |-> None]
    ELSE [type |-> "contractor", vendor |-> Some(vendor)]

(***************************************************************************)
(* csvImport.ts: the matching engine                                       *)
(*                                                                         *)
(* The characters U+2192 and U+2014 of the reason strings are written      *)
(* "->" and "--".                                                          *)
(***************************************************************************)

RECURSIVE BToInt(_)
BToInt(n) == IF n = <<>> THEN 0 ELSE n[1] + LimbBase * BToInt(Tail(n))

\* Number.prototype.toFixed(0) of a number below 2^52: the nearest integer,
\* the larger one of two equally near
ToFixed0(x) ==
    IF x.m = <<>> THEN "0"
    ELSE IntToStr(BToInt(BShr(BAdd(x.m, BShl(<<1>>, 0 - x.e - 1)), 0 - x.e).n))

\* `${(score * 100).toFixed(0)}`
Percent(score) == ToFixed0(FMul(score, FRatio(100, 1)))

GroupTeamLocations(group, divisionId, divisionName) ==
    [k \in 1..Len(group.teams) |->
        [divisionId |-> divisionId, divisionName |-> divisionName,
         groupId |-> group.id, groupName |-> group.name,
         teamId |-> group.teams[k].id, teamName |-> group.teams[k].name,
         managerName |-> IF group.manager = None THEN None ELSE group.manager[1].name]]

DivisionTeamLocations(division) ==
    Flatten([k \in 1..Len(division.groups) |->
                GroupTeamLocations(division.groups[k], Some(division.id),
                                   Some(division.name))])

\* portfolio.divisions ?? []
DivisionsOrEmpty(p) == IF p.divisions = None THEN <<>> ELSE p.divisions[1]

enumerateTeams(p) ==
    Flatten([k \in 1..Len(DivisionsOrEmpty(p)) |->
                DivisionTeamLocations(DivisionsOrEmpty(p)[k])])
    \o Flatten([k \in 1..Len(p.groups) |-> GroupTeamLocations(p.groups[k], None, None)])

\* the key of the Map of groupCsvRows
GroupKey(csvGroup, teamName) == csvGroup \o "|||" \o teamName

\* group.rows.push(row) and the push to managers or engineers (lines 298-304)
WithRow(group, row, role) ==
    [group EXCEPT
        !.rows = Append(@, row),
        !.managers = IF role = Some("engineering_manager") THEN Append(@, row) ELSE @,
        !.engineers = IF role \in {Some("engineer"), Some("senior_engineer")}
                      THEN Append(@, row) ELSE @]

NewCsvTeamGroup(row) ==
    [csvGroup |-> row.csvGroup, csvTeam |-> row.teamName, rows |-> <<>>,
     managers |-> <<>>, engineers |-> <<>>]

HasKey(groups, key) ==
    \E k \in 1..Len(groups) : GroupKey(groups[k].csvGroup, groups[k].csvTeam) = key

\* map.set(key, ...) when the key is new: the Map keeps insertion order
EnsureGroup(groups, row) ==
    IF HasKey(groups, GroupKey(row.csvGroup, row.teamName)) THEN groups
    ELSE Append(groups, NewCsvTeamGroup(row))

PutRow(groups, row) ==
    [k \in 1..Len(groups) |->
        IF GroupKey(groups[k].csvGroup, groups[k].csvTeam)
              = GroupKey(row.csvGroup, row.teamName)
        THEN WithRow(groups[k], row, mapRole(row.role))
        ELSE groups[k]]

RECURSIVE GroupRowsLoop(_, _)
GroupRowsLoop(groups, rows) ==
    IF rows = <<>> THEN groups
    ELSE GroupRowsLoop(PutRow(EnsureGroup(groups, rows[1]), rows[1]), Tail(rows))

groupCsvRows(rows) == GroupRowsLoop(<<>>, rows)

\* lines 324-334, given the two similarities
ContextOfDivision(appTeam, divScore, grpScore) ==
    [score |-> FMax(divScore, grpScore),
     reason |-> IF ~FLess(divScore, grpScore)
                THEN "division \"" \o appTeam.divisionName[1] \o "\""
                ELSE "group \"" \o appTeam.groupName \o "\""]

ContextOf(csvTeamGroup, appTeam) ==
    IF Truthy(appTeam.divisionName)
    THEN ContextOfDivision(appTeam,
                           similarityScore(csvTeamGroup.csvGroup, appTeam.divisionName[1]),
                           similarityScore(csvTeamGroup.csvGroup, appTeam.groupName))
    ELSE [score |-> similarityScore(csvTeamGroup.csvGroup, appTeam.groupName),
          reason |-> "group \"" \o appTeam.groupName \o "\""]

\* lines 337-345
ManagerConfirmed(csvTeamGroup, appTeam) ==
    \E k \in 1..Len(csvTeamGroup.managers) :
        namesMatch(csvTeamGroup.managers[k].name, appTeam.managerName)

\* lines 347-360, given the three components
ScoreOf(csvTeamGroup, appTeam, teamScore, context, managerConfirmed) ==
    [score |-> FAdd(FAdd(FMul(teamScore, FRatio(55, 100)),
                         FMul(context.score, FRatio(30, 100))),
                    IF managerConfirmed THEN FRatio(15, 100) ELSE FZero),
     reason |->
        "team name \"" \o csvTeamGroup.csvTeam \o "\" -> \"" \o appTeam.teamName
        \o "\" (" \o Percent(teamScore) \o "%)"
        \o "; context match to " \o context.reason \o " (" \o Percent(context.score) \o "%)"
        \o (IF managerConfirmed THEN "; manager confirmed" ELSE ""),
     managerConfirmed |-> managerConfirmed]

scoreMatch(csvTeamGroup, appTeam) ==
    ScoreOf(csvTeamGroup, appTeam,
            similarityScore(csvTeamGroup.csvTeam, appTeam.teamName),
            ContextOf(csvTeamGroup, appTeam),
            ManagerConfirmed(csvTeamGroup, appTeam))

MATCH_THRESHOLD == FRatio(45, 100)

\* the identifiers crypto.randomUUID returns are fresh: numbers from here on,
\* above every identifier of the portfolio
FirstFreshId == 100

\* Better with result.score >= bestResult.score
BetterOrEqual(best, appTeam, res) ==
    IF best = None \/ ~FLess(res.score, best[1].result.score)
    THEN Some([team |-> appTeam, result |-> res])
    ELSE best

\* if (!bestResult || result.score > bestResult.score)
Better(best, appTeam, res) ==
    IF best = None \/ FLess(best[1].result.score, res.score)
    THEN Some([team |-> appTeam, result |-> res])
    ELSE best

\* IsClaimed of a loop that forgets the claimed set
IsClaimedNever(appTeam, claimedTeams) == FALSE

\* claimedTeams.has(appTeam.teamId)
IsClaimed(appTeam, claimedTeams) == appTeam.teamId \in claimedTeams

\* the inner loop (lines 392-399) from index k
RECURSIVE BestFrom(_, _, _, _, _)
BestFrom(csvGroup, appTeams, claimedTeams, k, best) ==
    IF k > Len(appTeams) THEN best
    ELSE IF IsClaimed(appTeams[k], claimedTeams)
    THEN BestFrom(csvGroup, appTeams, claimedTeams, k + 1, best)
    ELSE BestFrom(csvGroup, appTeams, claimedTeams, k + 1,
                  Better(best, appTeams[k], scoreMatch(csvGroup, appTeams[k])))

BestMatch(csvGroup, appTeams, claimedTeams) ==
    BestFrom(csvGroup, appTeams, claimedTeams, 1, None)

\* the test of line 401
BelowThreshold(best) == best = None \/ FLess(best[1].result.score, MATCH_THRESHOLD)

(***************************************************************************)
(* csvImport.ts: analyseImport                                             *)
(***************************************************************************)

\* the locals of analyseImport (lines 379-385) and the identifier supply
AnalysisInit ==
    [teamChanges |-> <<>>, skippedRows |-> <<>>, unmatchedTeams |-> <<>>,
     replacements |-> <<>>, claimedTeams |-> {}, nextId |-> FirstFreshId]

BestCandidateReason(team, res) ==
    "Best candidate: \"" \o team.teamName \o "\" in "
    \o (IF Truthy(team.divisionName)
        THEN "division \"" \o team.divisionName[1] \o "\", " ELSE "")
    \o "group \"" \o team.groupName \o "\" -- score " \o Percent(res.score)
    \o "% (below " \o Percent(MATCH_THRESHOLD) \o "% threshold)"

UnmatchedReason(best) ==
    IF best # None THEN BestCandidateReason(best[1].team, best[1].result)
    ELSE "No candidate teams found in portfolio"

NoMatchSkip(csvGroup, row) ==
    [row |-> row,
     reason |-> "No matching team found for \"" \o csvGroup.csvTeam \o "\" in group \""
                \o csvGroup.csvGroup \o "\""]

\* Unmatched without the loop of lines 412-414
UnmatchedSkipsNothing(an, csvGroup, best) ==
    [an EXCEPT
        !.unmatchedTeams =
            Append(@, [csvGroup |-> csvGroup.csvGroup, csvTeam |-> csvGroup.csvTeam,
                       rowCount |-> Len(csvGroup.rows), reason |-> UnmatchedReason(best)])]

\* lines 402-415
Unmatched(an, csvGroup, best) ==
    [an EXCEPT
        !.unmatchedTeams =
            Append(@, [csvGroup |-> csvGroup.csvGroup, csvTeam |-> csvGroup.csvTeam,
                       rowCount |-> Len(csvGroup.rows), reason |-> UnmatchedReason(best)]),
        !.skippedRows =
            @ \o [k \in 1..Len(csvGroup.rows) |-> NoMatchSkip(csvGroup, csvGroup.rows[k])]]

\* SkipReason without the branch of line 446
SkipReasonImportsStaff(row, role) ==
    IF role = None THEN Some("Unknown role: \"" \o row.role \o "\"")
    ELSE IF role[1] = "engineering_manager"
    THEN Some("Engineering Manager -- used for matching only, not imported")
    ELSE IF role[1] \in {"principal_engineer", "head_of_engineering"}
    THEN Some(row.role \o " -- leadership layer, not imported")
    ELSE None

\* the reason a row of a matched team-group is not imported, or None
SkipReason(row, role) ==
    IF role = None THEN Some("Unknown role: \"" \o row.role \o "\"")
    ELSE IF role[1] = "engineering_manager"
    THEN Some("Engineering Manager -- used for matching only, not imported")
    ELSE IF role[1] = "staff_engineer"
    THEN Some("Staff Engineer -- management layer, not imported")
    ELSE IF role[1] \in {"principal_engineer", "head_of_engineering"}
    THEN Some(row.role \o " -- leadership layer, not imported")
    ELSE None

\* NewPerson with location: mapLocation(row.location) for every type
NewPersonKeepsLocation(id, row, role, tv, cleanName) ==
    [id |-> id, name |-> Some(cleanName), role |-> role, type |-> tv.type,
     location |-> Some(mapLocation(row.location)),
     vendor |-> IF Truthy(tv.vendor) THEN tv.vendor ELSE None]

\* lines 456-467, given mapTypeAndVendor's result and the clean name
NewPerson(id, row, role, tv, cleanName) ==
    [id |-> id, name |-> Some(cleanName), role |-> role, type |-> tv.type,
     location |-> Some(IF tv.type = "employee" THEN "onshore" ELSE mapLocation(row.location)),
     vendor |-> IF Truthy(tv.vendor) THEN tv.vendor ELSE None]

\* lines 470-476
AddedChange(row, tv, cleanName) ==
    [name |-> cleanName, role |-> row.role, location |-> row.location,
     vendor |-> row.vendor, type |-> tv.type]

ImportRow(acc, row, role, tv, cleanName) ==
    [acc EXCEPT !.newPersons = Append(@, NewPerson(acc.nextId, row, role, tv, cleanName)),
                !.addedChanges = Append(@, AddedChange(row, tv, cleanName)),
                !.nextId = @ + 1]

RowOutcome(acc, row, role, skip) ==
    IF skip # None
    THEN [acc EXCEPT !.skipped = Append(@, [row |-> row, reason |-> skip[1]])]
    ELSE ImportRow(acc, row, role[1], mapTypeAndVendor(row.vendor), normaliseName(row.name))

RowStep(acc, row, role) == RowOutcome(acc, row, role, SkipReason(row, role))

\* the loop over the rows of a matched team-group (lines 435-477)
RECURSIVE RowsLoop(_, _)
RowsLoop(acc, rows) ==
    IF rows = <<>> THEN acc
    ELSE RowsLoop(RowStep(acc, rows[1], mapRole(rows[1].role)), Tail(rows))

AllTeams(p) ==
    Flatten([d \in 1..Len(DivisionsOrEmpty(p)) |->
                Flatten([k \in 1..Len(DivisionsOrEmpty(p)[d].groups) |->
                            DivisionsOrEmpty(p)[d].groups[k].teams])])
    \o Flatten([k \in 1..Len(p.groups) |-> p.groups[k].teams])

FirstWithId(teams, teamId) ==
    IF \E k \in 1..Len(teams) : teams[k].id = teamId
    THEN Some(teams[CHOOSE k \in 1..Len(teams) :
                        teams[k].id = teamId /\ \A j \in 1..(k - 1) : teams[j].id # teamId])
    ELSE None

\* the team, or None for the code's null
findTeamInPortfolio(p, teamId) == FirstWithId(AllTeams(p), teamId)

IsEngineerMember(member) == member.role \in {"engineer", "senior_engineer"}

\* IsKeptMember of an import that adds to the members a team has
IsKeptMemberAlways(member) == TRUE

IsKeptMember(member) == ~IsEngineerMember(member)

\* lines 487-493
RemovedChange(member) ==
    [name |-> IF Truthy(member.name) THEN member.name[1] ELSE "Unnamed",
     role |-> IF member.role = "engineer" THEN "Engineer" ELSE "Senior Engineer",
     location |-> IF member.location # None THEN member.location[1] ELSE "onshore",
     vendor |-> IF Truthy(member.vendor) THEN member.vendor[1] ELSE "",
     type |-> member.type]

MembersOf(existingTeam) == IF existingTeam = None THEN <<>> ELSE existingTeam[1].members

RemovedChanges(members) ==
    [k \in 1..Len(SelectSeq(members, IsEngineerMember)) |->
        RemovedChange(SelectSeq(members, IsEngineerMember)[k])]

MatchOf(csvGroup, team, res) ==
    [csvGroup |-> csvGroup.csvGroup, csvTeam |-> csvGroup.csvTeam,
     appDivision |-> team.divisionName, appGroup |-> team.groupName,
     appTeam |-> team.teamName, matchReason |-> res.reason,
     managerConfirmed |-> res.managerConfirmed]

\* PushChange with newMembers: [...newPersons, ...keptMembers]
PushChangeNewFirst(an, p, csvGroup, team, res, acc, members) ==
    [an EXCEPT
        !.claimedTeams = @ \cup {team.teamId},
        !.skippedRows = @ \o acc.skipped,
        !.teamChanges =
            Append(@, [match |-> MatchOf(csvGroup, team, res),
                       added |-> acc.addedChanges,
                       removed |-> RemovedChanges(members)]),
        !.replacements =
            Append(@, [portfolioId |-> p.id, divisionId |-> team.divisionId,
                       groupId |-> team.groupId, teamId |-> team.teamId,
                       newMembers |-> acc.newPersons \o SelectSeq(members, IsKeptMember)]),
        !.nextId = acc.nextId]

\* lines 501-514, given the outcome of the row loop and the existing members
PushChange(an, p, csvGroup, team, res, acc, members) ==
    [an EXCEPT
        !.claimedTeams = @ \cup {team.teamId},
        !.skippedRows = @ \o acc.skipped,
        !.teamChanges =
            Append(@, [match |-> MatchOf(csvGroup, team, res),
                       added |-> acc.addedChanges,
                       removed |-> RemovedChanges(members)]),
        !.replacements =
            Append(@, [portfolioId |-> p.id, divisionId |-> team.divisionId,
                       groupId |-> team.groupId, teamId |-> team.teamId,
                       newMembers |-> SelectSeq(members, IsKeptMember) \o acc.newPersons]),
        !.nextId = acc.nextId]

\* lines 418-514
Matched(an, p, csvGroup, team, res) ==
    PushChange(an, p, csvGroup, team, res,
               RowsLoop([newPersons |-> <<>>, addedChanges |-> <<>>, skipped |-> <<>>,
                         nextId |-> an.nextId],
                        csvGroup.rows),
               MembersOf(findTeamInPortfolio(p, team.teamId)))

GroupOutcome(an, p, csvGroup, best) ==
    IF BelowThreshold(best) THEN Unmatched(an, csvGroup, best)
    ELSE Matched(an, p, csvGroup, best[1].team, best[1].result)

\* one iteration of the loop over the CSV team-groups (lines 387-515)
AnalyseGroup(an, p, csvGroup, appTeams) ==
    GroupOutcome(an, p, csvGroup, BestMatch(csvGroup, appTeams, an.claimedTeams))

\* the members a team has once the replacements are written into it
MembersAfter(team, replacements) ==
    IF \E k \in 1..Len(replacements) : replacements[k].teamId = team.id
    THEN replacements[CHOOSE k \in 1..Len(replacements) :
                         replacements[k].teamId = team.id].newMembers
    ELSE team.members

GroupWithReplacements(group, replacements) ==
    [group EXCEPT !.teams = [k \in 1..Len(group.teams) |->
                                [group.teams[k] EXCEPT
                                    !.members = MembersAfter(group.teams[k], replacements)]]]

\* PortfolioAfterGroup of an analysis that assigns newMembers to the members
\* of the matched teams of the direct groups
PortfolioWithReplacements(p, an) ==
    [p EXCEPT !.groups = [k \in 1..Len(p.groups) |->
                            GroupWithReplacements(p.groups[k], an.replacements)]]

\* the effect of an iteration on the portfolio argument: keptMembers,
\* newPersons and newMembers are new arrays, nothing of the portfolio is
\* assigned to
PortfolioAfterGroup(p, an) == p

RECURSIVE SumOf(_)
SumOf(ns) == IF ns = <<>> THEN 0 ELSE ns[1] + SumOf(Tail(ns))

\* ReportOf with membersAdded: teamChanges.length
ReportOfCountsChanges(an) ==
    [report |->
        [teamChanges |-> an.teamChanges,
         skippedRows |-> an.skippedRows,
         unmatchedTeams |-> an.unmatchedTeams,
         summary |->
            [teamsMatched |-> Len(an.teamChanges),
             teamsUnmatched |-> Len(an.unmatchedTeams),
             membersAdded |-> Len(an.teamChanges),
             membersRemoved |->
                SumOf([k \in 1..Len(an.teamChanges) |-> Len(an.teamChanges[k].removed)]),
             rowsSkipped |-> Len(an.skippedRows)]],
     replacements |-> an.replacements]

\* lines 517-530
ReportOf(an) ==
    [report |->
        [teamChanges |-> an.teamChanges,
         skippedRows |-> an.skippedRows,
         unmatchedTeams |-> an.unmatchedTeams,
         summary |->
            [teamsMatched |-> Len(an.teamChanges),
             teamsUnmatched |-> Len(an.unmatchedTeams),
             membersAdded |->
                SumOf([k \in 1..Len(an.teamChanges) |-> Len(an.teamChanges[k].added)]),
             membersRemoved |->
                SumOf([k \in 1..Len(an.teamChanges) |-> Len(an.teamChanges[k].removed)]),
             rowsSkipped |-> Len(an.skippedRows)]],
     replacements |-> an.replacements]

RECURSIVE AnalyseLoop(_, _, _, _)
AnalyseLoop(an, p, csvGroups, appTeams) ==
    IF csvGroups = <<>> THEN an
    ELSE AnalyseLoop(AnalyseGroup(an, p, csvGroups[1], appTeams), p, Tail(csvGroups), appTeams)

analyseImport(csvText, p) ==
    ReportOf(AnalyseLoop(AnalysisInit, p, groupCsvRows(parseCsv(csvText)), enumerateTeams(p)))

(***************************************************************************)
(* State                                                                   *)
(***************************************************************************)

VARIABLES
    portfolio,  \* MarkdownView's portfolio prop: None, or Some(Portfolio)
    text,       \* the markdown text handed to parseMarkdown
    lines,      \* parseMarkdown: text.split('\n')
    i,          \* parseMarkdown: number of lines already scanned (the loop index)
    ps,         \* parseMarkdown: its local variables (see ParserInit)
    result,     \* None while parseMarkdown runs, then Some(ParseResult)
    mdPc,       \* "generate" | "scan" | "done" | "idle"
    csvText,          \* analyseImport: its csvText argument
    importPortfolio,  \* analyseImport: its portfolio argument
    csvGroups,        \* analyseImport: groupCsvRows(parseCsv(csvText))
    appTeams,         \* analyseImport: enumerateTeams(portfolio)
    gi,               \* analyseImport: number of team-groups already processed
    an,               \* analyseImport: its local variables (see AnalysisInit)
    analysis,         \* None while analyseImport runs, then Some of what it returns
    csvPc,            \* "start" | "groups" | "done" | "idle"
    csvName,          \* a person name as a CSV row carries it
    appName,          \* the name of a group's manager: None when it has none
    nameRole,         \* the role column of the row that carries csvName
    normalised,       \* None, then Some of what normaliseName(csvName) returns
    matched,          \* None, then Some of what namesMatch(csvName, appName) returns
    scored,           \* None, then Some of what scoreMatch returns
    data,             \* useOrgData: data.portfolios
    step,             \* CsvImportModal: "input" | "preview" | "closed" | "idle"
    runs,             \* the calls of analyseImport that returned, oldest first
    callArgs,         \* the arguments of a call of adjustSnapshot or similarityScore
    callResult,       \* None, then Some of what the call returns
    allPortfolios,    \* buildVendorColourMap: its argument
    vendors,          \* buildVendorColourMap: collectVendorsFromAll(allPortfolios)
    vi,               \* buildVendorColourMap: number of vendors already placed
    slot,             \* buildVendorColourMap: None outside the probe loop, else Some(slot)
    usedSlots,        \* buildVendorColourMap: the Set usedSlots
    colourMap,        \* buildVendorColourMap: the Map, as a set of <<key, colour>>
    vendorPc          \* "start" | "loop" | "done" | "idle"

mdVars == <<portfolio, text, lines, i, ps, result, mdPc>>

csvVars == <<csvText, importPortfolio, csvGroups, appTeams, gi, an, analysis, csvPc>>

nameVars == <<csvName, appName, nameRole, normalised, matched, scored>>

storeVars == <<data, step, runs>>

callVars == <<callArgs, callResult>>

vendorVars == <<allPortfolios, vendors, vi, slot, usedSlots, colourMap, vendorPc>>

restVars == <<callVars, vendorVars>>

vars == <<mdVars, csvVars, nameVars, storeVars, restVars>>

\* no name is being compared
NamesIdle ==
    /\ csvName = ""
    /\ appName = None
    /\ nameRole = ""
    /\ normalised = None
    /\ matched = None
    /\ scored = None

\* no call is being made
CallIdle ==
    /\ callArgs = None
    /\ callResult = None

\* no colour map is being built
VendorsIdle ==
    /\ allPortfolios = <<>>
    /\ vendors = <<>>
    /\ vi = 0
    /\ slot = None
    /\ usedSlots = {}
    /\ colourMap = {}
    /\ vendorPc = "idle"

\* no import dialog is open
StoreIdle ==
    /\ data = <<>>
    /\ step = "idle"
    /\ runs = <<>>

\* no markdown editor is open
MdIdle ==
    /\ portfolio = None
    /\ text = ""
    /\ lines = <<>>
    /\ i = 0
    /\ ps = ParserInit
    /\ result = None
    /\ mdPc = "idle"

\* no import is running
CsvIdle ==
    /\ csvText = ""
    /\ importPortfolio = None
    /\ csvGroups = <<>>
    /\ appTeams = <<>>
    /\ gi = 0
    /\ an = AnalysisInit
    /\ analysis = None
    /\ csvPc = "idle"

(***************************************************************************)
(* Bounded inputs                                                          *)
(***************************************************************************)

\* number of free lines appended to a document prefix
MaxLines == 2
\* largest quantity prefix "Nx" in a generated list item
MaxQty == 3
\* largest number of tokens inside a generated bracket
MaxTokens == 3
\* largest number of members of a team in a generated portfolio
MaxMembers == 2

\* all sequences over S of length at most n
RECURSIVE SeqsUpTo(_, _)
SeqsUpTo(S, n) ==
    IF n = 0 THEN {<<>>}
    ELSE LET shorter == SeqsUpTo(S, n - 1)
         IN  shorter \cup {Append(q, e) : q \in {r \in shorter : Len(r) = n - 1}, e \in S}

\* lines a hand-edited document may contain: every construct of the grammar,
\* in and out of context, with known and unknown roles
LinePool ==
    {"# Retail (40% onshore target)",
     "## Division: Stores",
     "## Platform",
     "### Core",
     "#### Web",
     "Head of Engineering: Ann Lee",
     "Manager: Cy Young",
     "Managed by: TPM",
     "- 2x Engineer",
     "- Eve Hill, Senior Engineer [contractor, offshore, TCS]",
     "- Wizard",
     "see notes",
     "> comment"}

\* openings: nothing, a direct group with an open team, a team heading out
\* of context followed by a division with an open group and team
DocPrefixes ==
    {<<>>,
     <<"# Retail (40% onshore target)", "", "## Platform", "### Core">>,
     <<"# Retail", "#### Web", "## Division: Stores", "### Platform", "#### Web">>}

\* openings under which a leadership line, respectively a list item, is in context
PersonPrefixes ==
    {<<"# Retail">>,
     <<"# Retail", "## Platform", "### Core">>}

\* "Nx " for N in 0..MaxQty, and no quantity at all
QtyPrefixes == {IntToStr(n) \o "x " : n \in 0..MaxQty} \cup {""}

\* every role label as written, lower-cased and upper-cased, and a non-role
RoleWords ==
    {ROLE_LABELS[r] : r \in Roles}
    \cup {ToLower(ROLE_LABELS[r]) : r \in {"senior_engineer", "head_of_engineering"}}
    \cup {ToUpper(ROLE_LABELS[r]) : r \in {"engineer", "staff_engineer"}}
    \cup {"Wizard"}

BracketTokens == {"contractor", "EMPLOYEE", "offshore", "TCS"}

Brackets == {" [" \o Join(q, ", ") \o "]" : q \in SeqsUpTo(BracketTokens, MaxTokens)}

PersonHeads ==
    {"- Engineer", "- Eve Hill, Senior Engineer", "Manager: Cy Young",
     "Staff: Di Wu, Staff Engineer", "Head of Engineering: Ann Lee",
     "Principal Engineer: Raj"}

\* person lines: quantity x role x a few props, and a few heads x every bracket
PersonLines ==
    {"- " \o q \o w \o b :
        q \in QtyPrefixes, w \in RoleWords,
        b \in {"", " [contractor, offshore, TCS]", " [nearshore, Acme]"}}
    \cup {h \o b : h \in PersonHeads, b \in Brackets}

\* a division heading without a name, and a division in lower case with two
\* groups followed by a direct group
HeadingDocuments ==
    {<<"# Retail", "## Division:", "### Core", "- Engineer">>,
     <<"# Retail", "## division: stores", "### Platform", "### Core", "#### Web",
       "## Data", "### Api">>}

\* leadership lines in the full form, with the role of the slot and with
\* another role
LeaderDocuments ==
    {<<"# Retail", "Head of Engineering: Ann Lee, Head of Engineering [contractor, offshore, TCS]",
       "Principal Engineer: Raj, Principal Engineer", "## Platform",
       "Manager: Cy Young, Engineering Manager", "Staff: Di Wu, Staff Engineer">>,
     <<"# Retail", "## Platform", "Manager: Cy Young, Senior Engineer", "Staff: Engineer">>}

\* level-1 headings with the targets 0, 100 and 150 and in capitals
TargetDocuments ==
    {<<"# Retail (0% onshore target)", "## Platform">>,
     <<"# Retail (100%  ONSHORE TARGET)", "## Platform">>,
     <<"# Retail (150% onshore target)", "## Platform">>}

Documents ==
    {pre \o suf : pre \in DocPrefixes, suf \in SeqsUpTo(LinePool, MaxLines)}
    \cup {pre \o <<l>> : pre \in PersonPrefixes, l \in PersonLines}
    \cup HeadingDocuments
    \cup LeaderDocuments
    \cup TargetDocuments

(***************************************************************************)
(* MarkdownView: parseMarkdown run line by line on a hand-edited document  *)
(***************************************************************************)

InitMd ==
    /\ CallIdle
    /\ VendorsIdle
    /\ portfolio = None
    /\ text \in {Join(d, "\n") : d \in Documents}
    /\ lines = Split(text, "\n")
    /\ i = 0
    /\ ps = ParserInit
    /\ result = None
    /\ mdPc = "scan"
    /\ CsvIdle
    /\ NamesIdle
    /\ StoreIdle

\* one iteration of the loop
ScanLine ==
    /\ mdPc = "scan"
    /\ i < Len(lines)
    /\ ps' = ParseStep(ps, lines[i + 1], i + 1)
    /\ i' = i + 1
    /\ UNCHANGED <<portfolio, text, lines, result, mdPc, csvVars, nameVars, storeVars, restVars>>

\* the loop is over: finalize the open contexts and return
Finish ==
    /\ mdPc = "scan"
    /\ i = Len(lines)
    /\ ps' = Finalize(ps)
    /\ result' = Some(ParseReturn(ps))
    /\ mdPc' = "done"
    /\ UNCHANGED <<portfolio, text, lines, i, csvVars, nameVars, storeVars, restVars>>

NextMd == ScanLine \/ Finish

SpecMd == InitMd /\ [][NextMd]_vars

(***************************************************************************)
(* MarkdownView: the editor opens on generateMarkdown(portfolio) and Apply  *)
(* runs parseMarkdown on the text                                          *)
(***************************************************************************)

\* persons that satisfy the data-model invariant, named and unnamed
Employee(name, role) ==
    [id |-> 0, name |-> name, role |-> role, type |-> "employee",
     location |-> Some("onshore"), vendor |-> None]

Contractor(name, role, location, vendor) ==
    [id |-> 0, name |-> name, role |-> role, type |-> "contractor",
     location |-> Some(location), vendor |-> vendor]

MemberPool ==
    {Employee(None, "engineer"),
     Contractor(None, "engineer", "offshore", Some("TCS")),
     Employee(Some("Eve Hill"), "senior_engineer"),
     Contractor(Some("Bo Li"), "engineer", "nearshore", None)}

\* a leader of a slot: named employee, named contractor, or without a name
Leaders(role) ==
    {Employee(Some("Ann Lee"), role),
     Contractor(Some("Raj"), role, "offshore", Some("TCS")),
     Employee(None, role)}

TeamPool ==
    {[id |-> 0, name |-> "Web", members |-> ms] : ms \in SeqsUpTo(MemberPool, MaxMembers)}

\* a group has a manager, or an external-manager label, or neither
GroupPool ==
    {[id |-> 0, name |-> "Platform", manager |-> mg[1], managedBy |-> mg[2],
      staffEngineers |-> st, teams |-> <<t>>] :
        mg \in {<<None, None>>, <<None, Some("TPM")>>}
               \cup {<<Some(l), None>> : l \in Leaders("engineering_manager")},
        st \in {<<>>, <<Employee(Some("Di Wu"), "staff_engineer")>>},
        t \in TeamPool}

PlainGroup ==
    [id |-> 0, name |-> "Platform", manager |-> None, managedBy |-> None,
     staffEngineers |-> <<>>,
     teams |-> <<[id |-> 0, name |-> "Web", members |-> <<Employee(None, "engineer")>>]>>]

\* every leadership of a portfolio over one plain group, and every group
\* alone, directly under the portfolio and inside a division
Portfolios ==
    {[id |-> 0, name |-> "Retail", onshoreTargetPercentage |-> tg,
      headOfEngineering |-> hoe, principalEngineers |-> pes,
      divisions |-> None, groups |-> <<PlainGroup>>] :
        tg \in {None, Some(40)},
        hoe \in {None} \cup {Some(l) : l \in Leaders("head_of_engineering")},
        pes \in {<<>>, <<Employee(Some("Cy Young"), "principal_engineer")>>}}
    \cup
    {[id |-> 0, name |-> "Retail", onshoreTargetPercentage |-> Some(50),
      headOfEngineering |-> None, principalEngineers |-> <<>>,
      divisions |-> dv[1], groups |-> dv[2]] :
        dv \in {<<None, <<g>>>> : g \in GroupPool}
               \cup {<<Some(<<[id |-> 0, name |-> "Stores", groups |-> <<g, PlainGroup>>]>>),
                       <<>>>> :
                        g \in {h \in GroupPool : h.staffEngineers = <<>>}}}

InitRT ==
    /\ CallIdle
    /\ VendorsIdle
    /\ portfolio \in {Some(p) : p \in Portfolios}
    /\ text = ""
    /\ lines = <<>>
    /\ i = 0
    /\ ps = ParserInit
    /\ result = None
    /\ mdPc = "generate"
    /\ CsvIdle
    /\ NamesIdle
    /\ StoreIdle

\* useState(initialMarkdown): the editor's text is the generated document;
\* Apply hands it to parseMarkdown
Generate ==
    /\ mdPc = "generate"
    /\ text' = generateMarkdown(portfolio[1])
    /\ lines' = Split(text', "\n")
    /\ mdPc' = "scan"
    /\ UNCHANGED <<portfolio, i, ps, result, csvVars, nameVars, storeVars, restVars>>

NextRT == Generate \/ ScanLine \/ Finish

SpecRT == InitRT /\ [][NextRT]_vars

(***************************************************************************)
(* CsvImportModal: analyseImport(csvText, portfolio), one team-group of    *)
(* the CSV per step                                                        *)
(***************************************************************************)

\* largest number of free rows appended to a CSV opening
MaxRows == 2

Member(id, name, role) ==
    [id |-> id, name |-> name, role |-> role, type |-> "employee",
     location |-> Some("onshore"), vendor |-> None]

ContractMember(id, name, role, location, vendor) ==
    [id |-> id, name |-> name, role |-> role, type |-> "contractor",
     location |-> Some(location), vendor |-> Some(vendor)]

CoreTeam ==
    [id |-> 11, name |-> "Core",
     members |-> <<Member(21, Some("Di Wu"), "staff_engineer"),
                   Member(22, None, "engineer"),
                   ContractMember(23, Some("Eve Hill"), "senior_engineer", "offshore", "TCS"),
                   Member(24, Some("Cy Young"), "engineering_manager")>>]

CoreServicesTeam ==
    [id |-> 13, name |-> "Core Services",
     members |-> <<Member(25, Some("Bo Li"), "engineer")>>]

\* a second team of the same name
CoreTwinTeam == [id |-> 15, name |-> "Core", members |-> <<>>]

PlatformGroup(teams) ==
    [id |-> 5, name |-> "Platform",
     manager |-> Some(Member(20, Some("John Smith"), "engineering_manager")),
     managedBy |-> None, staffEngineers |-> <<>>, teams |-> teams]

DataGroup ==
    [id |-> 6, name |-> "Data Platform", manager |-> None, managedBy |-> Some("TPM"),
     staffEngineers |-> <<>>,
     teams |-> <<[id |-> 14, name |-> "Inbound, Tax & Control",
                  members |-> <<Member(26, Some("Flo Day"), "senior_engineer")>>]>>]

\* one direct group with two teams of the same name; a division and a direct
\* group with a second team that resembles the first
ImportPortfolios ==
    {[id |-> 1, name |-> "Retail", onshoreTargetPercentage |-> None,
      headOfEngineering |-> None, principalEngineers |-> <<>>,
      divisions |-> None, groups |-> <<PlatformGroup(<<CoreTeam, CoreTwinTeam>>)>>],
     [id |-> 1, name |-> "Retail", onshoreTargetPercentage |-> Some(50),
      headOfEngineering |-> None, principalEngineers |-> <<>>,
      divisions |-> Some(<<[id |-> 3, name |-> "Data", groups |-> <<DataGroup>>]>>),
      groups |-> <<PlatformGroup(<<CoreTeam, CoreServicesTeam>>)>>]}

\* rows of two team-groups that both resemble the team Core, of a team no
\* existing team resembles, of an unknown role, and with a comma in the team
\* name
RowPool ==
    {"Retail,Platform,Core,Engineer,OFFSHORE,TCS,Mr. Al Roe",
     "Retail,Platform,Core,Engineering Manager,Onshore,M&S,Jo Smith",
     "Retail,Platform Eng,Core,engineer ,Nearshore,,",
     "Retail,Platform,Zebra,Engineering Manager,Onshore,M&S,Mr John Smith",
     "Retail,Platform,Core,Wizard,Onshore,M&S,Ed",
     "Retail,Data,Inbound, Tax & Control,Principal Engineer,Offshore,TCS,Flo"}

\* nothing, and rows of the other roles, of an employee with an offshore
\* location and of names that begin like an honorific, around a blank line
\* and a line with too few fields
CsvOpenings ==
    {<<>>,
     <<"Retail,Platform,Core,Staff Engineer,Onshore,M&S,Cy Poe",
       "",
       "too,short",
       "Retail,Platform,Core,Senior Engineer,Remote,Acme,Drew Poe",
       "Retail,Platform,Core,Head of Engineering,Onshore,M&S,Gil",
       "Retail,Platform,Core,engineer,Offshore,m&s,Mrs. Jane Smith">>}

CsvTexts ==
    {Join(pre \o suf, "\n") : pre \in CsvOpenings, suf \in SeqsUpTo(RowPool, MaxRows)}

InitCsv ==
    /\ CallIdle
    /\ VendorsIdle
    /\ MdIdle
    /\ NamesIdle
    /\ StoreIdle
    /\ csvText \in CsvTexts
    /\ importPortfolio \in ImportPortfolios
    /\ csvGroups = <<>>
    /\ appTeams = <<>>
    /\ gi = 0
    /\ an = AnalysisInit
    /\ analysis = None
    /\ csvPc = "start"

\* lines 375-385
ReadCsv ==
    /\ csvPc = "start"
    /\ csvGroups' = groupCsvRows(parseCsv(csvText))
    /\ appTeams' = enumerateTeams(importPortfolio)
    /\ csvPc' = "groups"
    /\ UNCHANGED <<csvText, importPortfolio, gi, an, analysis, mdVars, nameVars, storeVars, restVars>>

\* one iteration of the loop over the team-groups (lines 387-515)
AnalyseNextGroup ==
    /\ csvPc = "groups"
    /\ gi < Len(csvGroups)
    /\ an' = AnalyseGroup(an, importPortfolio, csvGroups[gi + 1], appTeams)
    /\ importPortfolio' = PortfolioAfterGroup(importPortfolio, an')
    /\ gi' = gi + 1
    /\ UNCHANGED <<csvText, csvGroups, appTeams, analysis, csvPc, mdVars, nameVars, storeVars, restVars>>

\* lines 517-530
ReturnReport ==
    /\ csvPc = "groups"
    /\ gi = Len(csvGroups)
    /\ analysis' = Some(ReportOf(an))
    /\ csvPc' = "done"
    /\ UNCHANGED <<csvText, importPortfolio, csvGroups, appTeams, gi, an, mdVars, nameVars, storeVars, restVars>>

NextCsv == ReadCsv \/ AnalyseNextGroup \/ ReturnReport

SpecCsv == InitCsv /\ [][NextCsv]_vars

(***************************************************************************)
(* Properties of parseMarkdown                                             *)
(***************************************************************************)

Returned == result[1]

\* every person of a group, a list of groups, a division list, the parser state
TeamPersons(team) == {team.members[k] : k \in 1..Len(team.members)}

GroupPersons(g) ==
    (IF g.manager # None THEN {g.manager[1]} ELSE {})
    \cup {g.staffEngineers[k] : k \in 1..Len(g.staffEngineers)}
    \cup UNION {TeamPersons(g.teams[k]) : k \in 1..Len(g.teams)}

GroupsPersons(gs) == UNION {GroupPersons(gs[k]) : k \in 1..Len(gs)}

DivisionsPersons(ds) == UNION {GroupsPersons(ds[k].groups) : k \in 1..Len(ds)}

PortfolioPersons(p) ==
    (IF p.headOfEngineering # None THEN {p.headOfEngineering[1]} ELSE {})
    \cup {p.principalEngineers[k] : k \in 1..Len(p.principalEngineers)}
    \cup (IF p.divisions # None THEN DivisionsPersons(p.divisions[1]) ELSE {})
    \cup GroupsPersons(p.groups)

ParserPersons(q) ==
    (IF q.headOfEngineering # None THEN {q.headOfEngineering[1]} ELSE {})
    \cup {q.principalEngineers[k] : k \in 1..Len(q.principalEngineers)}
    \cup DivisionsPersons(q.divisions)
    \cup GroupsPersons(q.directGroups)
    \cup (IF q.currentDivision # None THEN GroupsPersons(q.currentDivision[1].groups) ELSE {})
    \cup (IF q.currentGroup # None THEN GroupPersons(q.currentGroup[1]) ELSE {})
    \cup (IF q.currentTeam # None THEN TeamPersons(q.currentTeam[1]) ELSE {})

\* C2 (all-or-nothing decode): what parseMarkdown returns is either a
\* portfolio with an empty error list or no portfolio with a non-empty error
\* list, never both and never neither.
C2_AllOrNothing ==
    result # None =>
        \/ Returned.portfolio # None /\ Returned.errors = <<>>
        \/ Returned.portfolio = None /\ Returned.errors # <<>>

\* a document with a portfolio heading and two offending lines was decoded
C2_Witness ==
    /\ result # None
    /\ Truthy(ps.portfolioName)
    /\ Len(Returned.errors) = 2
    /\ Returned.portfolio = None

\* the kinds of line of the document grammar, told by their first characters
IsHeading(t, n) == StartsWith(t, Hashes(n) \o " ")
IsComment(t) == StartsWith(t, ">") \/ StartsWith(t, "---") \/ StartsWith(t, "<!--")
IsGroupLine(t) ==
    StartsWithCI(t, "Manager:") \/ StartsWithCI(t, "Managed by:") \/ StartsWithCI(t, "Staff:")
IsPortfolioLine(t) ==
    StartsWithCI(t, "Head of Engineering:") \/ StartsWithCI(t, "Principal Engineer:")
IsListItem(t) == StartsWith(t, "- ")

\* the documents' only word that is no role label
NamesUnknownRole(t) == Includes(t, "Wizard")

\* a line that is out of its context, names an unknown role or is unrecognized,
\* when read in the context q
Offending(q, t) ==
    IF t = "" \/ IsComment(t) \/ IsHeading(t, 1) \/ IsHeading(t, 2) THEN FALSE
    ELSE IF IsHeading(t, 3) THEN q.currentDivision = None /\ q.currentGroup = None
    ELSE IF IsHeading(t, 4) THEN q.currentGroup = None
    ELSE IF IsPortfolioLine(t) THEN q.currentDivision # None \/ q.currentGroup # None
    ELSE IF IsGroupLine(t) THEN q.currentGroup = None
    ELSE IF IsListItem(t) THEN q.currentTeam = None \/ NamesUnknownRole(t)
    ELSE TRUE

ErrorLines(errs) == [k \in 1..Len(errs) |-> errs[k].line]

\* one valid team and, as the last line, a list item of an unknown role
OneTeamOneUnknownRole ==
    /\ Len(lines) = 4
    /\ SubSeq(lines, 1, 3) = <<"# Retail", "## Platform", "### Core">>
    /\ IsListItem(lines[4]) /\ NamesUnknownRole(lines[4])

\* C3 (error collection): the scan goes on to the last line whatever errors it
\* met; each scanned line adds one error carrying its own 1-based number when
\* it is offending and none otherwise, so the errors are in ascending line
\* order; a document with a portfolio heading returns exactly these errors;
\* one valid team and one unknown-role line return no portfolio and one error
\* at that line.
C3_ErrorCollection ==
    [][/\ i' = i + 1 =>
            ErrorLines(ps'.errors) =
                ErrorLines(ps.errors)
                \o (IF Offending(ps, Trim(lines[i + 1])) THEN <<i + 1>> ELSE <<>>)
       /\ result' # None =>
            /\ i = Len(lines)
            /\ Truthy(ps.portfolioName) => result'[1].errors = ps.errors
            /\ \A k \in 1..Len(ps.errors) :
                  /\ ps.errors[k].line \in 1..Len(lines)
                  /\ k > 1 => ps.errors[k - 1].line < ps.errors[k].line
            /\ OneTeamOneUnknownRole =>
                  /\ result'[1].portfolio = None
                  /\ ErrorLines(result'[1].errors) = <<4>>]_vars

\* a document with a heading, an offending line, good lines and another
\* offending line was decoded
C3_Witness ==
    /\ result # None
    /\ Truthy(ps.portfolioName)
    /\ Len(Returned.errors) = 2
    /\ Returned.errors[1].line + 1 < Returned.errors[2].line
    /\ Returned.portfolio = None

\* C4 (employee invariant on decode): every person parseMarkdown has built,
\* in any slot, whose type is employee is onshore and has no vendor.
C4_EmployeeInvariant ==
    /\ \A p \in ParserPersons(ps) :
          p.type = "employee" => p.location = Some("onshore") /\ p.vendor = None
    /\ result # None /\ Returned.portfolio # None =>
          \A p \in PortfolioPersons(Returned.portfolio[1]) :
              p.type = "employee" => p.location = Some("onshore") /\ p.vendor = None

\* an employee was decoded from brackets that name a location and a vendor
C4_Witness ==
    /\ result # None /\ Returned.portfolio # None
    /\ Includes(text, "[offshore, TCS, EMPLOYEE]") \/ Includes(text, "[offshore, TCS]")
    /\ \E p \in PortfolioPersons(Returned.portfolio[1]) : p.type = "employee"

\* the persons a list item "- Nx <word><brackets>" stands for, by the grammar
RoleOfWord(w) == CHOOSE r \in Roles : ToLower(ROLE_LABELS[r]) = ToLower(w)

KnownRoleWords == RoleWords \ {"Wizard"}

PropsOfBrackets ==
    [b \in {"", " [contractor, offshore, TCS]", " [nearshore, Acme]"} |->
        IF b = " [contractor, offshore, TCS]"
        THEN [type |-> "contractor", location |-> "offshore", vendor |-> Some("TCS")]
        ELSE [type |-> "employee", location |-> "onshore", vendor |-> None]]

WithoutId(m) ==
    [name |-> m.name, role |-> m.role, type |-> m.type, location |-> m.location,
     vendor |-> m.vendor]

\* the identifiers of every entity the parser holds
TeamIds(t) == <<t.id>> \o [k \in 1..Len(t.members) |-> t.members[k].id]

GroupIds(g) ==
    <<g.id>>
    \o (IF g.manager # None THEN <<g.manager[1].id>> ELSE <<>>)
    \o [k \in 1..Len(g.staffEngineers) |-> g.staffEngineers[k].id]
    \o Flatten([k \in 1..Len(g.teams) |-> TeamIds(g.teams[k])])

GroupsIds(gs) == Flatten([k \in 1..Len(gs) |-> GroupIds(gs[k])])

DivisionIds(d) == <<d.id>> \o GroupsIds(d.groups)

ParserIds(q) ==
    (IF q.headOfEngineering # None THEN <<q.headOfEngineering[1].id>> ELSE <<>>)
    \o [k \in 1..Len(q.principalEngineers) |-> q.principalEngineers[k].id]
    \o Flatten([k \in 1..Len(q.divisions) |-> DivisionIds(q.divisions[k])])
    \o GroupsIds(q.directGroups)
    \o (IF q.currentDivision # None THEN DivisionIds(q.currentDivision[1]) ELSE <<>>)
    \o (IF q.currentGroup # None THEN GroupIds(q.currentGroup[1]) ELSE <<>>)
    \o (IF q.currentTeam # None THEN TeamIds(q.currentTeam[1]) ELSE <<>>)

PairwiseDistinct(ids) == Cardinality({ids[k] : k \in 1..Len(ids)}) = Len(ids)

\* C5 (quantity expansion): scanning the list item "- Nx <Role> [props]"
\* inside a team, for a known role label in any letter case, appends exactly N
\* members to that team, all unnamed, with that role and the type, location
\* and vendor of the props; the identifiers of all entities built so far are
\* pairwise distinct.
C5_QuantityExpansion ==
    [][i' = i + 1 =>
        /\ PairwiseDistinct(ParserIds(ps'))
        /\ ps.currentTeam # None /\ IsListItem(lines[i + 1]) =>
           \A n \in 0..MaxQty, w \in KnownRoleWords, b \in DOMAIN PropsOfBrackets :
              lines[i + 1] = "- " \o IntToStr(n) \o "x " \o w \o b =>
                  /\ ps'.currentTeam # None
                  /\ Len(ps'.currentTeam[1].members) = Len(ps.currentTeam[1].members) + n
                  /\ SubSeq(ps'.currentTeam[1].members, 1, Len(ps.currentTeam[1].members))
                        = ps.currentTeam[1].members
                  /\ \A k \in (Len(ps.currentTeam[1].members) + 1)
                                ..Len(ps'.currentTeam[1].members) :
                        WithoutId(ps'.currentTeam[1].members[k]) =
                            [name |-> None, role |-> RoleOfWord(w),
                             type |-> PropsOfBrackets[b].type,
                             location |-> Some(PropsOfBrackets[b].location),
                             vendor |-> PropsOfBrackets[b].vendor]]_vars

\* "- 3x ENGINEER [contractor, offshore, TCS]" was scanned inside a team
C5_Witness ==
    /\ i = Len(lines) /\ i > 0
    /\ lines[i] = "- " \o IntToStr(MaxQty) \o "x ENGINEER [contractor, offshore, TCS]"
    /\ ps.currentTeam # None
    /\ Len(ps.currentTeam[1].members) = MaxQty
    /\ ps.errors = <<>>

(***************************************************************************)
(* Properties of the round trip                                            *)
(***************************************************************************)

\* the number of members of ms that are the person v, identifiers aside
CountOf(ms, v) == Cardinality({k \in 1..Len(ms) : WithoutId(ms[k]) = v})

\* the same persons, whatever their order and identifiers
SamePersons(a, b) ==
    /\ Len(a) = Len(b)
    /\ \A k \in 1..Len(a) : CountOf(a, WithoutId(a[k])) = CountOf(b, WithoutId(a[k]))

SameLeader(a, b) ==
    IF a = None \/ b = None THEN a = b ELSE WithoutId(a[1]) = WithoutId(b[1])

SameLeaders(a, b) ==
    /\ Len(a) = Len(b)
    /\ \A k \in 1..Len(a) : WithoutId(a[k]) = WithoutId(b[k])

SameTeam(a, b) == a.name = b.name /\ SamePersons(a.members, b.members)

SameGroup(a, b) ==
    /\ a.name = b.name
    /\ SameLeader(a.manager, b.manager)
    /\ a.managedBy = b.managedBy
    /\ SameLeaders(a.staffEngineers, b.staffEngineers)
    /\ Len(a.teams) = Len(b.teams)
    /\ \A k \in 1..Len(a.teams) : SameTeam(a.teams[k], b.teams[k])

SameGroups(a, b) ==
    Len(a) = Len(b) /\ \A k \in 1..Len(a) : SameGroup(a[k], b[k])

SameDivisions(a, b) ==
    /\ Len(a) = Len(b)
    /\ \A k \in 1..Len(a) : a[k].name = b[k].name /\ SameGroups(a[k].groups, b[k].groups)

DivisionsOf(p) == IF p.divisions = None THEN <<>> ELSE p.divisions[1]

TargetOf(p) ==
    IF p.onshoreTargetPercentage = None THEN 50 ELSE p.onshoreTargetPercentage[1]

\* equal up to identifier renaming and member order
SamePortfolio(a, b) ==
    /\ a.name = b.name
    /\ TargetOf(a) = TargetOf(b)
    /\ SameLeader(a.headOfEngineering, b.headOfEngineering)
    /\ SameLeaders(a.principalEngineers, b.principalEngineers)
    /\ SameDivisions(DivisionsOf(a), DivisionsOf(b))
    /\ SameGroups(a.groups, b.groups)

\* C1 (round trip): parseMarkdown(generateMarkdown(p)) returns no errors and
\* a portfolio equal to p up to identifier renaming and member order, every
\* person with the same name or absence of name, role, type, location, vendor.
C1_RoundTrip ==
    portfolio # None /\ result # None =>
        /\ Returned.errors = <<>>
        /\ Returned.portfolio # None
        /\ SamePortfolio(portfolio[1], Returned.portfolio[1])

\* the leaders of a portfolio: head of engineering, principal engineers,
\* managers and staff engineers
GroupLeaders(g) ==
    (IF g.manager # None THEN {g.manager[1]} ELSE {})
    \cup {g.staffEngineers[k] : k \in 1..Len(g.staffEngineers)}

PortfolioLeaders(p) ==
    (IF p.headOfEngineering # None THEN {p.headOfEngineering[1]} ELSE {})
    \cup {p.principalEngineers[k] : k \in 1..Len(p.principalEngineers)}
    \cup UNION {GroupLeaders(p.groups[k]) : k \in 1..Len(p.groups)}
    \cup UNION {UNION {GroupLeaders(DivisionsOf(p)[d].groups[k]) :
                          k \in 1..Len(DivisionsOf(p)[d].groups)} :
                   d \in 1..Len(DivisionsOf(p))}

\* the round trip of the portfolios whose leaders all have a name
RoundTripOfNamedLeaders ==
    portfolio # None /\ result # None
    /\ (\A l \in PortfolioLeaders(portfolio[1]) : Truthy(l.name)) =>
        /\ Returned.errors = <<>>
        /\ Returned.portfolio # None
        /\ SamePortfolio(portfolio[1], Returned.portfolio[1])

(***************************************************************************)
(* Properties of analyseImport                                             *)
(***************************************************************************)

\* an iteration of the loop over the team-groups has run; it pushed a
\* teamChange, or an unmatched team
GroupStep == csvPc = "groups" /\ gi' = gi + 1
MatchedStep == GroupStep /\ Len(an'.teamChanges) = Len(an.teamChanges) + 1
UnmatchedStep == GroupStep /\ Len(an'.unmatchedTeams) = Len(an.unmatchedTeams) + 1

LastOf(seq) == seq[Len(seq)]

\* what a step appended to a list
NewEntries(before, after) == SubSeq(after, Len(before) + 1, Len(after))

PortfolioGroups(p) ==
    {p.groups[k] : k \in 1..Len(p.groups)}
    \cup UNION {{DivisionsOf(p)[d].groups[k] : k \in 1..Len(DivisionsOf(p)[d].groups)} :
                   d \in 1..Len(DivisionsOf(p))}

PortfolioTeams(p) == UNION {{g.teams[k] : k \in 1..Len(g.teams)} : g \in PortfolioGroups(p)}

ExistingTeam(p, teamId) == CHOOSE t \in PortfolioTeams(p) : t.id = teamId

\* the teams earlier team-groups were matched to
Targets(replacements) == {replacements[k].teamId : k \in 1..Len(replacements)}

LocationOf(teamId) == appTeams[CHOOSE k \in 1..Len(appTeams) : appTeams[k].teamId = teamId]

\* C6: in one run no existing team is the target of two replacements or of
\* two teamChanges (the k-th teamChange names the team of the k-th
\* replacement); a team-group is matched only to a team no earlier team-group
\* was matched to, the best-scoring of those, and it is unmatched when none of
\* those reaches the threshold.
C6_ClaimExclusivity ==
    [][GroupStep =>
        /\ Len(an'.teamChanges) = Len(an'.replacements)
        /\ \A j, k \in 1..Len(an'.replacements) :
              /\ j # k => an'.replacements[j].teamId # an'.replacements[k].teamId
              /\ an'.teamChanges[k].match.appTeam =
                    ExistingTeam(importPortfolio, an'.replacements[k].teamId).name
        /\ MatchedStep =>
              /\ LastOf(an'.replacements).teamId \notin Targets(an.replacements)
              /\ \A k \in 1..Len(appTeams) :
                    appTeams[k].teamId \notin Targets(an.replacements) =>
                        ~FLess(scoreMatch(csvGroups[gi + 1],
                                          LocationOf(LastOf(an'.replacements).teamId)).score,
                               scoreMatch(csvGroups[gi + 1], appTeams[k]).score)
        /\ UnmatchedStep =>
              \A k \in 1..Len(appTeams) :
                  appTeams[k].teamId \notin Targets(an.replacements) =>
                      FLess(scoreMatch(csvGroups[gi + 1], appTeams[k]).score, MATCH_THRESHOLD)
      ]_vars

\* the team a team-group scores highest against when no team is claimed
UncontestedBest(csvGroup) == BestMatch(csvGroup, appTeams, {})

IsChangeOf(change, csvGroup) ==
    change.match.csvGroup = csvGroup.csvGroup /\ change.match.csvTeam = csvGroup.csvTeam

\* two team-groups score highest against the same team; the first was matched
\* to it and the second to another team
C6_Witness ==
    /\ csvPc = "done"
    /\ \E a, b \in 1..Len(csvGroups) :
          /\ a < b
          /\ ~BelowThreshold(UncontestedBest(csvGroups[a]))
          /\ ~BelowThreshold(UncontestedBest(csvGroups[b]))
          /\ UncontestedBest(csvGroups[a])[1].team.teamId
                = UncontestedBest(csvGroups[b])[1].team.teamId
          /\ \E j, k \in 1..Len(an.teamChanges) :
                /\ IsChangeOf(an.teamChanges[j], csvGroups[a])
                /\ IsChangeOf(an.teamChanges[k], csvGroups[b])
                /\ an.replacements[j].teamId = UncontestedBest(csvGroups[a])[1].team.teamId
                /\ an.replacements[k].teamId # an.replacements[j].teamId

\* the similarity of two normalised strings as the fraction
\* <<numerator, denominator>>: 1, 0.7 + 0.3 * shorter / longer, or
\* intersection / union
ExactSimilarityOfNormalised(na, nb) ==
    IF na = nb THEN <<1, 1>>
    ELSE IF Includes(na, nb) \/ Includes(nb, na)
    THEN (IF Len(na) < Len(nb) THEN <<7 * Len(nb) + 3 * Len(na), 10 * Len(nb)>>
          ELSE <<7 * Len(na) + 3 * Len(nb), 10 * Len(na)>>)
    ELSE IF Tokens(na) = {} \/ Tokens(nb) = {} THEN <<0, 1>>
    ELSE <<Cardinality(Tokens(na) \cap Tokens(nb)), Cardinality(Tokens(na) \cup Tokens(nb))>>

ExactSimilarity(a, b) == ExactSimilarityOfNormalised(normalise(a), normalise(b))

FractionLess(x, y) == x[1] * y[2] < y[1] * x[2]
FractionMax(x, y) == IF FractionLess(x, y) THEN y ELSE x

ExactContext(csvTeamGroup, appTeam) ==
    IF Truthy(appTeam.divisionName)
    THEN FractionMax(ExactSimilarity(csvTeamGroup.csvGroup, appTeam.divisionName[1]),
                     ExactSimilarity(csvTeamGroup.csvGroup, appTeam.groupName))
    ELSE ExactSimilarity(csvTeamGroup.csvGroup, appTeam.groupName)

\* teamScore * 0.55 + contextScore * 0.30 + managerBonus >= 0.45, over the
\* common denominator
ReachesThreshold(teamScore, contextScore, managerConfirmed) ==
    55 * teamScore[1] * contextScore[2] + 30 * contextScore[1] * teamScore[2]
    + (IF managerConfirmed THEN 15 ELSE 0) * teamScore[2] * contextScore[2]
        >= 45 * teamScore[2] * contextScore[2]

TotalReachesThreshold(csvTeamGroup, appTeam) ==
    ReachesThreshold(ExactSimilarity(csvTeamGroup.csvTeam, appTeam.teamName),
                     ExactContext(csvTeamGroup, appTeam),
                     ManagerConfirmed(csvTeamGroup, appTeam))

\* C7: a team-group is matched exactly when a team no earlier team-group was
\* matched to exists and the best total score of those teams, where the total
\* score is teamNameScore * 0.55 + contextScore * 0.30 + managerBonus, is
\* greater than or equal to 0.45; otherwise it is unmatched.
C7_ThresholdBoundary ==
    [][GroupStep =>
        /\ MatchedStep <=> ~UnmatchedStep
        /\ MatchedStep <=>
              \E k \in 1..Len(appTeams) :
                  /\ appTeams[k].teamId \notin Targets(an.replacements)
                  /\ TotalReachesThreshold(csvGroups[gi + 1], appTeams[k])
      ]_vars

\* the same boundary on the numbers the code computes: matched exactly when
\* the score of the best unclaimed team is not below MATCH_THRESHOLD
ThresholdOnComputedScore ==
    [][GroupStep =>
        /\ MatchedStep <=> ~UnmatchedStep
        /\ MatchedStep <=>
              \E k \in 1..Len(appTeams) :
                  /\ appTeams[k].teamId \notin Targets(an.replacements)
                  /\ ~FLess(scoreMatch(csvGroups[gi + 1], appTeams[k]).score,
                            MATCH_THRESHOLD)
      ]_vars

\* a team-group was left unmatched although the total score of an unclaimed
\* team is 0.45
UnmatchedAtThreshold ==
    /\ csvPc = "done"
    /\ \E k \in 1..Len(csvGroups), t \in 1..Len(appTeams) :
          /\ TotalReachesThreshold(csvGroups[k], appTeams[t])
          /\ \E u \in 1..Len(an.unmatchedTeams) :
                /\ an.unmatchedTeams[u].csvGroup = csvGroups[k].csvGroup
                /\ an.unmatchedTeams[u].csvTeam = csvGroups[k].csvTeam
                /\ EndsWith(an.unmatchedTeams[u].reason,
                            "score 45% (below 45% threshold)")

ImportedRole(row) == mapRole(row.role) \in {Some("engineer"), Some("senior_engineer")}
NotImportedRole(row) == ~ImportedRole(row)

\* the reason of a skipped row of a matched team-group names its case
ReasonFits(row, reason) ==
    IF mapRole(row.role) = None THEN reason = "Unknown role: \"" \o row.role \o "\""
    ELSE EndsWith(reason, ", not imported")

\* the positions of newMembers that hold no member of the existing team
NewPositions(newMembers, existing) ==
    {k \in 1..Len(newMembers) :
        \A j \in 1..Len(existing) : existing[j] # newMembers[k]}

\* C9: in a matched team-group the rows whose role maps to engineer or
\* senior_engineer, and only they, become added entries and new persons of
\* newMembers; every other row is appended once to skippedRows, in row
\* order, with the reason of its case.
C9_OnlyEngineerRowsImported ==
    [][MatchedStep =>
        LET rows == csvGroups[gi + 1].rows
            imported == SelectSeq(rows, ImportedRole)
            others == SelectSeq(rows, NotImportedRole)
            added == LastOf(an'.teamChanges).added
            skipped == NewEntries(an.skippedRows, an'.skippedRows)
            newMembers == LastOf(an'.replacements).newMembers
            existing == ExistingTeam(importPortfolio,
                                     LastOf(an'.replacements).teamId).members
        IN  /\ SubSeq(an'.skippedRows, 1, Len(an.skippedRows)) = an.skippedRows
            /\ Len(added) = Len(imported)
            /\ \A k \in 1..Len(imported) :
                  /\ added[k].role = imported[k].role
                  /\ added[k].name = normaliseName(imported[k].name)
            /\ Cardinality(NewPositions(newMembers, existing)) = Len(imported)
            /\ \A k \in NewPositions(newMembers, existing) :
                  newMembers[k].role \in {"engineer", "senior_engineer"}
            /\ [k \in 1..Len(skipped) |-> skipped[k].row] = others
            /\ \A k \in 1..Len(skipped) : ReasonFits(skipped[k].row, skipped[k].reason)
      ]_vars

\* a matched team-group with an imported row, a row of an unknown role and a
\* row of the leadership layer
C9_Witness ==
    /\ csvPc = "done"
    /\ \E c \in 1..Len(an.teamChanges) :
          /\ an.teamChanges[c].added # <<>>
          /\ \E j, k \in 1..Len(an.skippedRows) :
                /\ an.skippedRows[j].row.csvGroup = an.teamChanges[c].match.csvGroup
                /\ an.skippedRows[j].row.teamName = an.teamChanges[c].match.csvTeam
                /\ StartsWith(an.skippedRows[j].reason, "Unknown role: ")
                /\ an.skippedRows[k].row.csvGroup = an.teamChanges[c].match.csvGroup
                /\ an.skippedRows[k].row.teamName = an.teamChanges[c].match.csvTeam
                /\ EndsWith(an.skippedRows[k].reason, "leadership layer, not imported")

NeitherEngineerNorSenior(member) == member.role \notin {"engineer", "senior_engineer"}
EngineerOrSenior(member) == member.role \in {"engineer", "senior_engineer"}

PortfolioPersonIds(p) ==
    {m.id : m \in UNION {{t.members[k] : k \in 1..Len(t.members)} : t \in PortfolioTeams(p)}}

\* C10: newMembers of a matched team is the existing members that are
\* neither engineer nor senior_engineer, as they are and in their order,
\* followed by one new person per engineer or senior-engineer row in row
\* order; removed has one entry per existing engineer or senior-engineer
\* member, in their order.
C10_ReplacementComposition ==
    [][MatchedStep =>
        LET existing == ExistingTeam(importPortfolio,
                                     LastOf(an'.replacements).teamId).members
            kept == SelectSeq(existing, NeitherEngineerNorSenior)
            leaving == SelectSeq(existing, EngineerOrSenior)
            imported == SelectSeq(csvGroups[gi + 1].rows, ImportedRole)
            newMembers == LastOf(an'.replacements).newMembers
            removed == LastOf(an'.teamChanges).removed
        IN  /\ Len(newMembers) = Len(kept) + Len(imported)
            /\ SubSeq(newMembers, 1, Len(kept)) = kept
            /\ \A k \in 1..Len(imported) :
                  /\ newMembers[Len(kept) + k].name = Some(normaliseName(imported[k].name))
                  /\ Some(newMembers[Len(kept) + k].role) = mapRole(imported[k].role)
                  /\ newMembers[Len(kept) + k].type
                        = (IF ToUpper(imported[k].vendor) = "M&S" THEN "employee"
                           ELSE "contractor")
                  /\ newMembers[Len(kept) + k].id \notin PortfolioPersonIds(importPortfolio)
                  /\ \A j \in 1..(k - 1) :
                        newMembers[Len(kept) + j].id # newMembers[Len(kept) + k].id
            /\ Len(removed) = Len(leaving)
            /\ \A k \in 1..Len(leaving) :
                  /\ removed[k].type = leaving[k].type
                  /\ removed[k].name = (IF Truthy(leaving[k].name) THEN leaving[k].name[1]
                                        ELSE "Unnamed")
      ]_vars

\* a matched team with members that stay, members that are removed and an
\* imported row
C10_Witness ==
    /\ csvPc = "done"
    /\ \E k \in 1..Len(an.replacements) :
          /\ an.teamChanges[k].removed # <<>>
          /\ an.teamChanges[k].added # <<>>
          /\ \E j \in 1..Len(an.replacements[k].newMembers) :
                an.replacements[k].newMembers[j]
                    \in {ExistingTeam(importPortfolio, an.replacements[k].teamId).members[m] :
                            m \in 1..Len(ExistingTeam(importPortfolio,
                                                      an.replacements[k].teamId).members)}

\* the persons a matched step built from the rows: the last entries of
\* newMembers, one per imported row
ImportedPersons(newMembers, imported) ==
    SubSeq(newMembers, Len(newMembers) - Len(imported) + 1, Len(newMembers))

\* the location column read without regard to letter case
LocationSaid(row) ==
    IF ToLower(row.location) = "offshore" THEN "offshore"
    ELSE IF ToLower(row.location) = "nearshore" THEN "nearshore"
    ELSE "onshore"

\* the vendor of a person as text, empty for no vendor
VendorText(person) == IF person.vendor = None THEN "" ELSE person.vendor[1]

\* C13: the person of an imported row whose vendor is M&S in any letter case
\* is an employee with no vendor and location onshore whatever the location
\* column says; of any other row it is a contractor with the row's vendor
\* (none for a blank vendor) and the location the column says, onshore for
\* any other value. Every imported employee is onshore with no vendor.
C13_VendorMapping ==
    [][MatchedStep =>
        \A k \in 1..Len(SelectSeq(csvGroups[gi + 1].rows, ImportedRole)) :
            LET row == SelectSeq(csvGroups[gi + 1].rows, ImportedRole)[k]
                person == ImportedPersons(LastOf(an'.replacements).newMembers,
                                          SelectSeq(csvGroups[gi + 1].rows, ImportedRole))[k]
            IN  /\ ToUpper(row.vendor) = "M&S" =>
                      /\ person.type = "employee"
                      /\ person.vendor = None
                      /\ person.location = Some("onshore")
                /\ ToUpper(row.vendor) # "M&S" =>
                      /\ person.type = "contractor"
                      /\ VendorText(person) = row.vendor
                      /\ person.location = Some(LocationSaid(row))
                /\ person.type = "employee" =>
                      person.vendor = None /\ person.location = Some("onshore")
      ]_vars

\* an M&S row in lower case with an offshore location and a contractor row
\* with the location in upper case were imported
C13_Witness ==
    /\ csvPc = "done"
    /\ \E c \in 1..Len(an.teamChanges) :
          \E j, k \in 1..Len(an.teamChanges[c].added) :
              /\ an.teamChanges[c].added[j].vendor = "m&s"
              /\ an.teamChanges[c].added[j].location = "Offshore"
              /\ an.teamChanges[c].added[j].type = "employee"
              /\ an.teamChanges[c].added[k].location = "OFFSHORE"
              /\ an.teamChanges[c].added[k].type = "contractor"

\* the fields of a line, and the lines of a text that are not blank
FieldsOf(line) == Split(line, ",")
HasSevenFields(line) == Len(FieldsOf(line)) >= 7
NonBlankLines(csv) == SelectSeq(Split(csv, "\n"), IsNonBlank)

\* the values of a row of n >= 7 fields, counted from both ends
FixedEnds(fields, n) ==
    [portfolio |-> Trim(fields[1]),
     csvGroup |-> Trim(fields[2]),
     teamName |-> Trim(Join([k \in 1..(n - 6) |-> fields[k + 2]], ",")),
     role |-> Trim(fields[n - 3]),
     location |-> Trim(fields[n - 2]),
     vendor |-> Trim(fields[n - 1]),
     name |-> Trim(fields[n])]

WithoutLineNumber(row) ==
    [portfolio |-> row.portfolio, csvGroup |-> row.csvGroup, teamName |-> row.teamName,
     role |-> row.role, location |-> row.location, vendor |-> row.vendor,
     name |-> row.name]

\* the rows the team-groups hold
GroupedRows == UNION {{csvGroups[g].rows[k] : k \in 1..Len(csvGroups[g].rows)} :
                         g \in 1..Len(csvGroups)}

\* C14: the rows parseCsv returned are, in line order, one per non-blank
\* line of at least 7 fields, with fields 1 and 2 as portfolio and csvGroup,
\* the last four as role, location, vendor and name, and the fields between
\* rejoined with commas as teamName, every value trimmed; a line of fewer
\* than 7 fields gives no row and no skipped row.
C14_FixedEndsParsing ==
    csvPc \in {"groups", "done"} =>
        LET wide == SelectSeq(NonBlankLines(csvText), HasSevenFields)
            rows == parseCsv(csvText)
        IN  /\ Len(rows) = Len(wide)
            /\ \A k \in 1..Len(wide) :
                  /\ WithoutLineNumber(rows[k])
                        = FixedEnds(FieldsOf(wide[k]), Len(FieldsOf(wide[k])))
                  /\ \A j \in 1..(k - 1) : rows[j].lineNumber < rows[k].lineNumber
            /\ GroupedRows = {rows[k] : k \in 1..Len(rows)}
            /\ \A k \in 1..Len(an.skippedRows) : an.skippedRows[k].row \in GroupedRows

\* a text with a blank line, a line of two fields, lines of seven fields and
\* a line of eight fields was parsed
C14_Witness ==
    /\ csvPc = "groups"
    /\ \E j, k \in 1..Len(Split(csvText, "\n")) :
          /\ Split(csvText, "\n")[j] = ""
          /\ Len(FieldsOf(Split(csvText, "\n")[k])) = 2
    /\ \E g, h \in 1..Len(csvGroups) :
          /\ csvGroups[g].csvTeam = "Inbound, Tax & Control"
          /\ csvGroups[h].csvTeam = "Core"

\* no team that is still unclaimed reaches the threshold for the team-group
NoneReaches(csvGroup) ==
    \A k \in 1..Len(appTeams) :
        appTeams[k].teamId \notin an.claimedTeams =>
            FLess(scoreMatch(csvGroup, appTeams[k]).score, MATCH_THRESHOLD)

\* C15: when the best score of a team-group is below the threshold, or no
\* unclaimed team exists, the iteration appends one UnmatchedTeam with the
\* team-group's names and its number of rows, appends every row of it to
\* skippedRows, adds no teamChange and no replacement, claims no team, and
\* the loop goes on: every team-group gets its entry before the report is
\* returned.
C15_UnmatchedTeamGroup ==
    [][/\ GroupStep /\ NoneReaches(csvGroups[gi + 1]) =>
            /\ Len(an'.unmatchedTeams) = Len(an.unmatchedTeams) + 1
            /\ SubSeq(an'.unmatchedTeams, 1, Len(an.unmatchedTeams)) = an.unmatchedTeams
            /\ LastOf(an'.unmatchedTeams).csvGroup = csvGroups[gi + 1].csvGroup
            /\ LastOf(an'.unmatchedTeams).csvTeam = csvGroups[gi + 1].csvTeam
            /\ LastOf(an'.unmatchedTeams).rowCount = Len(csvGroups[gi + 1].rows)
            /\ SubSeq(an'.skippedRows, 1, Len(an.skippedRows)) = an.skippedRows
            /\ [k \in 1..Len(NewEntries(an.skippedRows, an'.skippedRows)) |->
                    NewEntries(an.skippedRows, an'.skippedRows)[k].row]
                  = csvGroups[gi + 1].rows
            /\ an'.teamChanges = an.teamChanges
            /\ an'.replacements = an.replacements
            /\ an'.claimedTeams = an.claimedTeams
            /\ csvPc' = "groups"
       /\ GroupStep => Len(an'.teamChanges) + Len(an'.unmatchedTeams) = gi'
       /\ csvPc' = "done" => gi' = Len(csvGroups) /\ analysis' # None
      ]_vars

\* a team-group was left unmatched and a later one was matched
C15_Witness ==
    /\ csvPc = "done"
    /\ \E j, k \in 1..Len(csvGroups) :
          /\ j < k
          /\ \E u \in 1..Len(an.unmatchedTeams) :
                /\ an.unmatchedTeams[u].csvGroup = csvGroups[j].csvGroup
                /\ an.unmatchedTeams[u].csvTeam = csvGroups[j].csvTeam
                /\ an.unmatchedTeams[u].rowCount = Len(csvGroups[j].rows)
          /\ \E c \in 1..Len(an.teamChanges) : IsChangeOf(an.teamChanges[c], csvGroups[k])

\* a team-group was left unmatched because every team was claimed
UnmatchedForLackOfTeams ==
    /\ csvPc = "done"
    /\ \E u \in 1..Len(an.unmatchedTeams) :
          an.unmatchedTeams[u].reason = "No candidate teams found in portfolio"

\* the position of a team in the enumeration
IndexOf(teamId) == CHOOSE k \in 1..Len(appTeams) : appTeams[k].teamId = teamId

\* the identifiers of the teams of some groups, in order
TeamIdsOf(groups) ==
    Flatten([g \in 1..Len(groups) |->
                [t \in 1..Len(groups[g].teams) |-> groups[g].teams[t].id]])

\* teams of the divisions in order, then teams of the direct groups
EnumerationOrder(p) ==
    Flatten([d \in 1..Len(DivisionsOf(p)) |-> TeamIdsOf(DivisionsOf(p)[d].groups)])
    \o TeamIdsOf(p.groups)

\* the line on which the key of a team-group first appears
FirstLineOf(csvGroup) == csvGroup.rows[1].lineNumber

\* C19: the team-groups are processed in the order in which their
\* (csvGroup, teamName) key first appears in the CSV; the team a team-group
\* is matched to scores at least as high as every team unclaimed at that
\* moment, and strictly higher than every unclaimed team before it in the
\* enumeration (teams of divisions in order, then teams of direct groups);
\* what earlier team-groups were given is never changed.
C19_GreedySelection ==
    [][/\ csvPc' = "groups" =>
            /\ \A g, h \in 1..Len(csvGroups') :
                  g < h =>
                      /\ FirstLineOf(csvGroups'[g]) < FirstLineOf(csvGroups'[h])
                      /\ <<csvGroups'[g].csvGroup, csvGroups'[g].csvTeam>>
                            # <<csvGroups'[h].csvGroup, csvGroups'[h].csvTeam>>
            /\ [k \in 1..Len(appTeams') |-> appTeams'[k].teamId]
                  = EnumerationOrder(importPortfolio)
       /\ GroupStep =>
            /\ SubSeq(an'.replacements, 1, Len(an.replacements)) = an.replacements
            /\ SubSeq(an'.teamChanges, 1, Len(an.teamChanges)) = an.teamChanges
            /\ an.claimedTeams \subseteq an'.claimedTeams
       /\ MatchedStep =>
            /\ IsChangeOf(LastOf(an'.teamChanges), csvGroups[gi + 1])
            /\ \A k \in 1..Len(appTeams) :
                  appTeams[k].teamId \notin an.claimedTeams =>
                      /\ ~FLess(scoreMatch(csvGroups[gi + 1],
                                           LocationOf(LastOf(an'.replacements).teamId)).score,
                                scoreMatch(csvGroups[gi + 1], appTeams[k]).score)
                      /\ k < IndexOf(LastOf(an'.replacements).teamId) =>
                            FLess(scoreMatch(csvGroups[gi + 1], appTeams[k]).score,
                                  scoreMatch(csvGroups[gi + 1],
                                             LocationOf(LastOf(an'.replacements).teamId)).score)
      ]_vars

\* a team-group was matched to the first of two teams with the same score,
\* and a later team-group to the second
C19_Witness ==
    /\ csvPc = "done"
    /\ Len(an.replacements) >= 2
    /\ \E j, k \in 1..Len(appTeams) :
          /\ j < k
          /\ an.replacements[1].teamId = appTeams[j].teamId
          /\ an.replacements[2].teamId = appTeams[k].teamId
          /\ scoreMatch(csvGroups[1], appTeams[j]).score
                = scoreMatch(csvGroups[1], appTeams[k]).score
          /\ IsChangeOf(an.teamChanges[1], csvGroups[1])

(***************************************************************************)
(* Properties of parseMarkdown: contexts                                   *)
(***************************************************************************)

\* the scanned line n, trimmed
Scanned(n) == Trim(lines[n])

\* the last level-2 heading among the first n lines, 0 for none, and the
\* last level-3 heading after it
RECURSIVE LastHeading(_, _, _)
LastHeading(level, from, n) ==
    IF n <= from THEN 0
    ELSE IF IsHeading(Scanned(n), level) THEN n
    ELSE LastHeading(level, from, n - 1)

\* the text of a heading of the given level
HeadingName(t, level) == Trim(SubSeq(t, level + 2, Len(t)))

\* a level-2 heading that starts with "Division:"
IsDivisionHeading(t) == IsHeading(t, 2) /\ StartsWithCI(HeadingName(t, 2), "Division:")

\* a level-2 heading "Division: <Name>"
NamesDivision(t) == IsDivisionHeading(t) /\ Len(HeadingName(t, 2)) > Len("Division:")

SeenLevel2(n) == LastHeading(2, 0, n) > 0

InDivision(n) == SeenLevel2(n) /\ NamesDivision(Scanned(LastHeading(2, 0, n)))

\* a group is open after n lines: the last level-2 heading is a group, or a
\* division with a level-3 heading after it
GroupOpen(n) ==
    /\ SeenLevel2(n)
    /\ InDivision(n) => LastHeading(3, LastHeading(2, 0, n), n) > 0

\* a team is open after n lines: a level-3 or level-4 heading follows the
\* heading of a direct group, or a level-4 heading follows the level-3
\* heading of a group of a division
TeamOpen(n) ==
    /\ GroupOpen(n)
    /\ IF InDivision(n)
       THEN LastHeading(4, LastHeading(3, LastHeading(2, 0, n), n), n) > 0
       ELSE \/ LastHeading(3, LastHeading(2, 0, n), n) > 0
            \/ LastHeading(4, LastHeading(2, 0, n), n) > 0

\* the scan of line i + 1 added one error at that line and nothing else
RejectedScan ==
    /\ Len(ps'.errors) = Len(ps.errors) + 1
    /\ LastOf(ps'.errors).line = i + 1
    /\ [ps' EXCEPT !.errors = ps.errors] = ps

\* a construct whose context is open per the lines read so far (inContext)
\* and per the parser's state (open): the two agree, out of context the line
\* is rejected, and in context a line that adds no error is taken (taken)
Gated(inContext, open, taken) ==
    /\ open <=> inContext
    /\ ~inContext => RejectedScan
    /\ inContext /\ ps'.errors = ps.errors => taken

GatedScan(t) ==
    /\ IsPortfolioLine(t) =>
          Gated(~SeenLevel2(i),
                ps.currentDivision = None /\ ps.currentGroup = None,
                \/ ps'.headOfEngineering # ps.headOfEngineering
                \/ Len(ps'.principalEngineers) = Len(ps.principalEngineers) + 1)
    /\ IsGroupLine(t) =>
          Gated(GroupOpen(i),
                ps.currentGroup # None,
                \/ /\ ps'.currentGroup[1].manager # None
                   /\ ps'.currentGroup[1].manager # ps.currentGroup[1].manager
                \/ /\ StartsWithCI(t, "Managed by:")
                   /\ ps'.currentGroup[1].managedBy # None
                \/ Len(ps'.currentGroup[1].staffEngineers)
                      = Len(ps.currentGroup[1].staffEngineers) + 1)
    /\ IsListItem(t) =>
          Gated(TeamOpen(i),
                ps.currentTeam # None,
                \/ Len(ps'.currentTeam[1].members) > Len(ps.currentTeam[1].members)
                \/ StartsWith(t, "- 0x "))

\* C20: a Head of Engineering or Principal Engineer line after a level-2
\* heading, a Manager, Managed by or Staff line while no group is open, and a
\* list item while no team is open each add one error with the number of
\* the line and change nothing else of what is being built; in its context,
\* a line that adds no error is taken into the tree.
C20_ContextGating ==
    [][i' = i + 1 => GatedScan(Scanned(i + 1))]_vars

\* a leadership line after a level-2 heading was answered by an error
C20_Witness ==
    /\ mdPc = "scan"
    /\ \E k \in 1..i :
          /\ IsPortfolioLine(Scanned(k)) /\ SeenLevel2(k - 1)
          /\ k \in {ps.errors[e].line : e \in 1..Len(ps.errors)}
    /\ ps.headOfEngineering = None

\* a Manager, Managed by or Staff line in a division without a group was
\* answered by an error
GroupLineOutsideGroup ==
    /\ mdPc = "scan"
    /\ \E j \in 1..i :
          /\ IsGroupLine(Scanned(j)) /\ ~GroupOpen(j - 1) /\ SeenLevel2(j - 1)
          /\ j \in {ps.errors[e].line : e \in 1..Len(ps.errors)}

\* a list item outside a team was answered by an error
ListItemOutsideTeam ==
    /\ mdPc = "scan"
    /\ \E j \in 1..i :
          /\ IsListItem(Scanned(j)) /\ ~TeamOpen(j - 1) /\ GroupOpen(j - 1)
          /\ j \in {ps.errors[e].line : e \in 1..Len(ps.errors)}


(***************************************************************************)
(* csvImport.ts: normaliseName, namesMatch and the manager bonus of        *)
(* scoreMatch, applied to one CSV name and one manager name                *)
(***************************************************************************)

\* names with each honorific in several letter cases, names that begin with
\* the letters of one, short and long surnames, initials, and no name
CsvNames ==
    {"Mrs. Jane Smith", "Mrs Jane Smith", "Mr.  Al   Roe", "Miss Li", "MS. Ann",
     "Dr.Who", "dr Al Roe", "Drew Poe", "Mr. J. Smith", "john smith",
     "Jane A. Smith", "Jo Wu", "Jo Wun", ""}

AppNames ==
    {None, Some("John Smith"), Some("Jane Smith"), Some("J Smith"), Some("Jay Wu"),
     Some("Jay Wun"), Some("D Poe"), Some("Al Roe"), Some("")}

\* the role of the row that carries the name
NameRoles == {"Engineering Manager", "Engineer"}

\* a CSV whose team-group has a manager row of another name before the row
\* of csvName
ManagerCsv(name, role) ==
    Join(<<"Retail,Platform,Core,Engineering Manager,Onshore,M&S,Zed Quux",
           "Retail,Platform,Core," \o role \o ",Onshore,M&S," \o name>>, "\n")

\* the portfolio whose group Platform has the manager appName
ManagedPortfolio(name) ==
    [id |-> 1, name |-> "Retail", onshoreTargetPercentage |-> None,
     headOfEngineering |-> None, principalEngineers |-> <<>>, divisions |-> None,
     groups |-> <<[PlatformGroup(<<CoreTeam>>) EXCEPT
                      !.manager = IF name = None THEN None
                                  ELSE Some(Member(20, name, "engineering_manager"))]>>]

InitNames ==
    /\ CallIdle
    /\ VendorsIdle
    /\ MdIdle
    /\ CsvIdle
    /\ StoreIdle
    /\ csvName \in CsvNames
    /\ appName \in AppNames
    /\ nameRole \in NameRoles
    /\ normalised = None
    /\ matched = None
    /\ scored = None

\* normaliseName(csvName)
CallNormaliseName ==
    /\ csvName \in CsvNames
    /\ normalised = None
    /\ normalised' = Some(normaliseName(csvName))
    /\ UNCHANGED <<csvName, appName, nameRole, matched, scored, mdVars, csvVars, storeVars, restVars>>

\* namesMatch(csvName, appName)
CallNamesMatch ==
    /\ csvName \in CsvNames
    /\ matched = None
    /\ matched' = Some(namesMatch(csvName, appName))
    /\ UNCHANGED <<csvName, appName, nameRole, normalised, scored, mdVars, csvVars, storeVars, restVars>>

\* scoreMatch(csvTeamGroup, appTeam) for the team-group of the CSV and the
\* team of the portfolio
CallScoreMatch ==
    /\ csvName \in CsvNames
    /\ scored = None
    /\ scored' = Some(scoreMatch(groupCsvRows(parseCsv(ManagerCsv(csvName, nameRole)))[1],
                                 enumerateTeams(ManagedPortfolio(appName))[1]))
    /\ UNCHANGED <<csvName, appName, nameRole, normalised, matched, mdVars, csvVars, storeVars, restVars>>

NextNames == CallNormaliseName \/ CallNamesMatch \/ CallScoreMatch

SpecNames == InitNames /\ [][NextNames]_vars


(***************************************************************************)
(* Properties of normaliseName, namesMatch and the manager bonus           *)
(***************************************************************************)

\* the whitespace-delimited tokens of s, in order
RECURSIVE WordsOf(_)
WordsOf(s) ==
    IF s = "" THEN <<>>
    ELSE IF IsSpace(CharAt(s, 1)) THEN WordsOf(Tail(s))
    ELSE LET n == IF FirstPos(s, " ") = 0 THEN Len(s) ELSE FirstPos(s, " ") - 1
         IN  <<SubSeq(s, 1, n)>> \o WordsOf(SubSeq(s, n + 1, Len(s)))

LastToken(s) == IF WordsOf(s) = <<>> THEN "" ELSE WordsOf(s)[Len(WordsOf(s))]
FirstInitial(s) == IF WordsOf(s) = <<>> THEN "" ELSE CharAt(WordsOf(s)[1], 1)

\* a name as namesMatch compares it
Compared(name) == ToLower(normaliseName(name))

SameOrContained(a, b) == a = b \/ Includes(a, b) \/ Includes(b, a)

SameSurnameAndInitial(a, b) ==
    LastToken(a) = LastToken(b) /\ FirstInitial(a) = FirstInitial(b)

Present(name) == name # None /\ name[1] # ""

\* the manager rows of the team-group of ManagerCsv
ManagerNames ==
    <<"Zed Quux">> \o (IF nameRole = "Engineering Manager" THEN <<csvName>> ELSE <<>>)

\* the score without the manager bonus: team "Core" against "Core" and
\* group "Platform" against "Platform"
ScoreWithoutBonus ==
    FAdd(FMul(similarityScore("Core", "Core"), FRatio(55, 100)),
         FMul(similarityScore("Platform", "Platform"), FRatio(30, 100)))

\* the bonus and managerConfirmed go with confirmed
BonusGiven(confirmed) ==
    /\ scored[1].managerConfirmed = confirmed
    /\ scored[1].score
          = FAdd(ScoreWithoutBonus, IF confirmed THEN FRatio(15, 100) ELSE FZero)

\* C17 as stated: namesMatch is true exactly when appName is present and the
\* compared names are equal, or one contains the other, or their last tokens
\* are equal and the first characters of their first tokens are equal; the
\* bonus of 0.15 and managerConfirmed are given exactly when a manager row
\* matches the group's manager in this sense.
C17_NamesMatchAsStated ==
    /\ matched # None =>
          matched[1] = /\ Present(appName)
                       /\ \/ SameOrContained(Compared(csvName), Compared(appName[1]))
                          \/ SameSurnameAndInitial(Compared(csvName), Compared(appName[1]))
    /\ scored # None =>
          BonusGiven(\E k \in 1..Len(ManagerNames) :
                        /\ Present(appName)
                        /\ \/ SameOrContained(Compared(ManagerNames[k]), Compared(appName[1]))
                           \/ SameSurnameAndInitial(Compared(ManagerNames[k]),
                                                    Compared(appName[1])))

\* the names refer to the same person: equal, one contained in the other, or
\* the same surname of more than 2 characters and the same first initial
SamePerson(name, manager) ==
    /\ Present(manager)
    /\ \/ SameOrContained(Compared(name), Compared(manager[1]))
       \/ /\ Len(LastToken(Compared(name))) > 2
          /\ SameSurnameAndInitial(Compared(name), Compared(manager[1]))

\* C17: namesMatch(csvName, appName) is true exactly when appName is present
\* and, after normaliseName and lower-casing of both names, the names are
\* equal, or one contains the other, or their last whitespace-delimited
\* tokens are equal and longer than 2 characters and the first characters of
\* their first tokens are equal; scoreMatch gives the bonus of 0.15 and
\* managerConfirmed = true exactly when at least one engineering-manager row
\* of the team-group matches the candidate group's manager in this sense.
C17_NamesMatch ==
    /\ matched # None => matched[1] = SamePerson(csvName, appName)
    /\ scored # None =>
          BonusGiven(\E k \in 1..Len(ManagerNames) : SamePerson(ManagerNames[k], appName))

\* a manager row was matched by surname and initial alone, and the bonus given
C17_Witness ==
    /\ matched = Some(TRUE)
    /\ scored # None
    /\ scored[1].managerConfirmed
    /\ ~SameOrContained(Compared(csvName), Compared(appName[1]))

\* the same surname and initial, but a surname of 2 characters: no match
ShortSurname ==
    /\ matched = Some(FALSE)
    /\ Present(appName)
    /\ SameSurnameAndInitial(Compared(csvName), Compared(appName[1]))

\* the name begins with the honorific word h: the letters of h in any letter
\* case, not followed by a further letter
BeginsWithHonorific(name, h) ==
    /\ StartsWithCI(name, h)
    /\ Len(name) > Len(h) => ToLower(CharAt(name, Len(h) + 1)) \notin LowerSet

HonorificWords == {"mr", "ms", "mrs", "miss", "dr"}

\* the name without the honorific word and its period
AfterWord(name, h) ==
    IF Len(name) > Len(h) /\ CharAt(name, Len(h) + 1) = "."
    THEN SubSeq(name, Len(h) + 2, Len(name))
    ELSE SubSeq(name, Len(h) + 1, Len(name))

\* the name without one complete honorific word at its start, whitespace collapsed
WithoutHonorific(name) ==
    IF \E h \in HonorificWords : BeginsWithHonorific(name, h)
    THEN Trim(CollapseSpaces(AfterWord(name,
            CHOOSE h \in HonorificWords : BeginsWithHonorific(name, h))))
    ELSE Trim(CollapseSpaces(name))

\* C18: normaliseName removes from the start of the name exactly one complete
\* honorific word among Mr, Ms, Mrs, Miss, Dr (any letter case, with or
\* without a period), collapses whitespace and removes nothing else.
C18_HonorificStripping ==
    normalised # None => normalised[1] = WithoutHonorific(csvName)

\* where normaliseName returns the name without its honorific word
StrippedAsStated ==
    /\ normalised # None
    /\ normalised[1] = WithoutHonorific(csvName)
    /\ normalised[1] # Trim(CollapseSpaces(csvName))

\* the name of every imported person is what normaliseName returns for the
\* name of its row
ImportedNames ==
    [][MatchedStep =>
        \A k \in 1..Len(SelectSeq(csvGroups[gi + 1].rows, ImportedRole)) :
            ImportedPersons(LastOf(an'.replacements).newMembers,
                            SelectSeq(csvGroups[gi + 1].rows, ImportedRole))[k].name
              = Some(normaliseName(SelectSeq(csvGroups[gi + 1].rows, ImportedRole)[k].name))
      ]_vars

\* an imported person whose name lost the letters of an honorific
ImportedWithoutLetters ==
    /\ csvPc = "done"
    /\ \E k \in 1..Len(an.replacements) :
          \E m \in 1..Len(an.replacements[k].newMembers) :
              an.replacements[k].newMembers[m].name = Some("ew Poe")


(***************************************************************************)
(* useOrgData.ts: replaceTeamMembers                                       *)
(***************************************************************************)

\* the team of a replaceTeamMembers that replaces the members of every team
\* of the group
TeamWithMembersOfAny(t, r) == [t EXCEPT !.members = r.newMembers]

\* t.id === r.teamId ? { ...t, members: r.newMembers } : t
TeamWithMembers(t, r) ==
    IF t.id = r.teamId THEN [t EXCEPT !.members = r.newMembers] ELSE t

\* the updater of line 456: g => ({ ...g, teams: g.teams.map(...) })
GroupWithMembers(g, r) ==
    [g EXCEPT !.teams = [k \in 1..Len(g.teams) |-> TeamWithMembers(g.teams[k], r)]]

\* groups.map(g => g.id === groupId ? updater(g) : g)
GroupsUpdated(groups, r) ==
    [k \in 1..Len(groups) |->
        IF groups[k].id = r.groupId THEN GroupWithMembers(groups[k], r) ELSE groups[k]]

\* portfolio.divisions?.map(d => d.id === divisionId ? {...} : d)
DivisionsUpdated(divisions, r) ==
    IF divisions = None THEN None
    ELSE Some([k \in 1..Len(divisions[1]) |->
                 IF divisions[1][k].id = r.divisionId[1]
                 THEN [divisions[1][k] EXCEPT !.groups = GroupsUpdated(@, r)]
                 ELSE divisions[1][k]])

\* with the updater of replacement r
updateGroupInPortfolio(p, r) ==
    IF r.divisionId # None
    THEN [p EXCEPT !.divisions = DivisionsUpdated(@, r)]
    ELSE [p EXCEPT !.groups = GroupsUpdated(@, r)]

\* one iteration of the loop over the replacements
WithReplacement(portfolios, r) ==
    [k \in 1..Len(portfolios) |->
        IF portfolios[k].id = r.portfolioId
        THEN updateGroupInPortfolio(portfolios[k], r)
        ELSE portfolios[k]]

RECURSIVE replaceTeamMembers(_, _)
replaceTeamMembers(portfolios, replacements) ==
    IF replacements = <<>> THEN portfolios
    ELSE replaceTeamMembers(WithReplacement(portfolios, replacements[1]), Tail(replacements))

(***************************************************************************)
(* CsvImportModal: preview (analyseImport on the portfolio), back, apply   *)
(* (replaceTeamMembers on the store), and the import of the same CSV again *)
(***************************************************************************)

\* largest number of free rows appended to an imported CSV
MaxImportRows == 1

\* largest number of previews of one CSV
MaxRuns == 3

\* a portfolio the import is not for
OtherPortfolio ==
    [id |-> 2, name |-> "Wholesale", onshoreTargetPercentage |-> None,
     headOfEngineering |-> Some(Member(30, Some("Ann Lee"), "head_of_engineering")),
     principalEngineers |-> <<>>, divisions |-> None,
     groups |-> <<[id |-> 7, name |-> "Platform",
                   manager |-> Some(Member(31, Some("John Smith"), "engineering_manager")),
                   managedBy |-> None,
                   staffEngineers |-> <<Member(32, Some("Sy Moss"), "staff_engineer")>>,
                   teams |-> <<[id |-> 16, name |-> "Core",
                                members |-> <<Member(33, Some("Ray Fox"), "engineer")>>]>>]>>]

Stores == {<<p, OtherPortfolio>> : p \in ImportPortfolios}

ImportTexts ==
    {Join(pre \o suf, "\n") : pre \in CsvOpenings, suf \in SeqsUpTo(RowPool, MaxImportRows)}

\* the locals of a call of an analyseImport that keeps claimedTeams between calls
AnalysisOfCallKeepsClaims(previous) ==
    [AnalysisInit EXCEPT !.nextId = previous.nextId,
                         !.claimedTeams = previous.claimedTeams]

\* the locals of a further call of analyseImport: new arrays and a new set;
\* crypto.randomUUID goes on from the identifiers it has returned
AnalysisOfCall(previous) == [AnalysisInit EXCEPT !.nextId = previous.nextId]

InitImport ==
    /\ CallIdle
    /\ VendorsIdle
    /\ MdIdle
    /\ NamesIdle
    /\ data \in Stores
    /\ csvText \in ImportTexts
    /\ importPortfolio = data[1]
    /\ csvGroups = <<>>
    /\ appTeams = <<>>
    /\ gi = 0
    /\ an = AnalysisInit
    /\ analysis = None
    /\ csvPc = "start"
    /\ step = "input"
    /\ runs = <<>>

\* handlePreview after analyseImport has returned (lines 30-33)
ShowPreview ==
    /\ step = "input"
    /\ csvPc = "done"
    /\ step' = "preview"
    /\ runs' = Append(runs, [portfolio |-> importPortfolio,
                             replacements |-> analysis[1].replacements,
                             before |-> data,
                             after |-> None])
    /\ UNCHANGED <<data, mdVars, csvVars, nameVars, restVars>>

\* the Back button (line 84) and handlePreview again, up to its call of
\* analyseImport with the same text and the same portfolio
PreviewAgain ==
    /\ step = "preview"
    /\ Len(runs) < MaxRuns
    /\ step' = "input"
    /\ csvPc' = "start"
    /\ csvGroups' = <<>>
    /\ appTeams' = <<>>
    /\ gi' = 0
    /\ an' = AnalysisOfCall(an)
    /\ analysis' = None
    /\ UNCHANGED <<csvText, importPortfolio, data, runs, mdVars, nameVars, restVars>>

\* handleApply (lines 39-42): onApply(replacements), onClose()
Apply ==
    /\ step = "preview"
    /\ data' = replaceTeamMembers(data, LastOf(runs).replacements)
    /\ runs' = [runs EXCEPT ![Len(runs)].after = Some(data')]
    /\ step' = "closed"
    /\ UNCHANGED <<mdVars, csvVars, nameVars, restVars>>

\* the dialog opened again for the same portfolio of the store, the same CSV
\* pasted, and handlePreview up to its call of analyseImport
ImportAgain ==
    /\ step = "closed"
    /\ Len(runs) < MaxRuns
    /\ step' = "input"
    /\ importPortfolio' = data[1]
    /\ csvPc' = "start"
    /\ csvGroups' = <<>>
    /\ appTeams' = <<>>
    /\ gi' = 0
    /\ an' = AnalysisOfCall(an)
    /\ analysis' = None
    /\ UNCHANGED <<csvText, data, runs, mdVars, nameVars, restVars>>

NextImport ==
    \/ ReadCsv
    \/ AnalyseNextGroup
    \/ ReturnReport
    \/ ShowPreview
    \/ PreviewAgain
    \/ Apply
    \/ ImportAgain

SpecImport == InitImport /\ [][NextImport]_vars


(***************************************************************************)
(* Properties of the import: apply, re-import, determinism                 *)
(***************************************************************************)

\* the persons that are members of a team of a portfolio of the store
StorePersonIds(portfolios) ==
    UNION {PortfolioPersonIds(portfolios[k]) : k \in 1..Len(portfolios)}

\* the member list with the identifiers of the persons outside known blanked
MembersUpToIds(members, known) ==
    [k \in 1..Len(members) |->
        IF members[k].id \in known THEN members[k] ELSE [members[k] EXCEPT !.id = 0]]

\* the teams of a portfolio by identifier, each with its member list
MemberLists(p, known) ==
    {<<t.id, MembersUpToIds(t.members, known)>> : t \in PortfolioTeams(p)}

StoreMemberLists(portfolios, known) ==
    [k \in 1..Len(portfolios) |-> MemberLists(portfolios[k], known)]

\* run k analysed the portfolio that the application of run j left
ImportedAgain(j, k) ==
    /\ j < k
    /\ runs[j].after # None
    /\ runs[k].after # None
    /\ runs[k].portfolio = runs[j].after[1][1]

\* C11: when the replacements of analyseImport(csv, p) are applied with
\* replaceTeamMembers, and analyseImport is run again with the same csv on
\* the resulting portfolio and its replacements applied, every team has the
\* same members in the same order after the second application as after the
\* first, up to the identifiers of the imported persons.
C11_IdempotentReimport ==
    \A j \in 1..Len(runs) : \A k \in 1..Len(runs) :
        ImportedAgain(j, k) =>
            StoreMemberLists(runs[k].after[1], StorePersonIds(runs[1].before))
              = StoreMemberLists(runs[j].after[1], StorePersonIds(runs[1].before))

\* a second application, of replacements with imported persons, after a
\* first one that changed the store
C11_Witness ==
    \E j \in 1..Len(runs) : \E k \in 1..Len(runs) :
        /\ ImportedAgain(j, k)
        /\ runs[j].after[1] # runs[j].before
        /\ runs[k].after[1] # runs[j].after[1]
        /\ \E n \in 1..Len(runs[k].replacements) :
              \E m \in 1..Len(runs[k].replacements[n].newMembers) :
                  runs[k].replacements[n].newMembers[m].id
                      \notin StorePersonIds(runs[k].before)

\* the replacements with the identifiers of the persons that are not in the
\* portfolio blanked
ReplacementsUpToIds(replacements, p) ==
    [k \in 1..Len(replacements) |->
        [replacements[k] EXCEPT !.newMembers = MembersUpToIds(@, PortfolioPersonIds(p))]]

\* C12 as stated: two runs of analyseImport on identical CSV text and an
\* identical portfolio snapshot produce identical replacements.
C12_IdenticalReplacements ==
    \A j \in 1..Len(runs) : \A k \in 1..Len(runs) :
        runs[j].portfolio = runs[k].portfolio =>
            runs[j].replacements = runs[k].replacements

\* C12: two runs of analyseImport on identical CSV text and an identical
\* portfolio snapshot produce replacements that are identical up to the
\* identifiers of the imported persons: the same target teams in the same
\* order, each with the same member list in the same order.
C12_MatchingDeterminism ==
    \A j \in 1..Len(runs) : \A k \in 1..Len(runs) :
        runs[j].portfolio = runs[k].portfolio =>
            ReplacementsUpToIds(runs[j].replacements, runs[j].portfolio)
              = ReplacementsUpToIds(runs[k].replacements, runs[k].portfolio)

\* two runs on the same portfolio that import persons
C12_Witness ==
    \E j \in 1..Len(runs) : \E k \in 1..Len(runs) :
        /\ j < k
        /\ runs[j].portfolio = runs[k].portfolio
        /\ Len(runs[j].replacements) > 1
        /\ runs[j].replacements # runs[k].replacements

\* the team without its member list when it is one of the targets
TeamOutline(t, targets) == IF t.id \in targets THEN [t EXCEPT !.members = <<>>] ELSE t

GroupOutline(g, targets) ==
    [g EXCEPT !.teams = [k \in 1..Len(g.teams) |-> TeamOutline(g.teams[k], targets)]]

\* the portfolio without the member lists of the targets
PortfolioOutline(p, targets) ==
    [p EXCEPT
        !.groups = [k \in 1..Len(p.groups) |-> GroupOutline(p.groups[k], targets)],
        !.divisions =
            IF p.divisions = None THEN None
            ELSE Some([d \in 1..Len(p.divisions[1]) |->
                        [p.divisions[1][d] EXCEPT
                            !.groups = [k \in 1..Len(p.divisions[1][d].groups) |->
                                          GroupOutline(p.divisions[1][d].groups[k], targets)]]])]

ApplyStep == step = "preview" /\ step' = "closed"

\* C16: after replaceTeamMembers applies the replacements that analyseImport
\* computed on the current data, the only change in the store is the member
\* list of each claimed team: every other portfolio, every division, group,
\* manager, managed-by label, staff-engineer list, team name and identifier,
\* the member list of every unclaimed team and the non-engineer members of
\* each claimed team are unchanged.
C16_ApplyTouchesOnlyClaimedTeams ==
    [][ApplyStep =>
        /\ Len(data') = Len(data)
        /\ \A k \in 2..Len(data) : data'[k] = data[k]
        /\ PortfolioOutline(data'[1], Targets(LastOf(runs).replacements))
             = PortfolioOutline(data[1], Targets(LastOf(runs).replacements))
        /\ \A k \in 1..Len(LastOf(runs).replacements) :
              /\ ExistingTeam(data'[1], LastOf(runs).replacements[k].teamId).members
                   = LastOf(runs).replacements[k].newMembers
              /\ SelectSeq(ExistingTeam(data'[1], LastOf(runs).replacements[k].teamId).members,
                           NeitherEngineerNorSenior)
                   = SelectSeq(ExistingTeam(data[1], LastOf(runs).replacements[k].teamId).members,
                               NeitherEngineerNorSenior)
      ]_vars

\* an application that changed the team Core, which has a staff engineer and
\* a manager among its members and a sibling team that was not claimed
C16_Witness ==
    /\ step = "closed"
    /\ data # LastOf(runs).before
    /\ Targets(LastOf(runs).replacements) = {11}
    /\ Len(ExistingTeam(data[1], 11).members) > 2

\* an application that changed a team of a division
AppliedInDivision ==
    /\ step = "closed"
    /\ data # LastOf(runs).before
    /\ 14 \in Targets(LastOf(runs).replacements)


(***************************************************************************)
(* Properties of parseMarkdown: heading depth                              *)
(***************************************************************************)

\* the scan of line i + 1 opened a team of this name in the group that was open
TeamOpened(name) ==
    /\ ps'.errors = ps.errors
    /\ ps'.currentTeam # None
    /\ ps'.currentTeam[1].name = name
    /\ ps'.currentTeam[1].members = <<>>
    /\ ps'.currentGroup # None
    /\ ps'.currentGroup[1].id = ps.currentGroup[1].id
    /\ ps'.currentDivision = ps.currentDivision

\* the scan opened a group of this name in the division that was open
GroupOfDivisionOpened(name) ==
    /\ ps'.errors = ps.errors
    /\ ps'.currentGroup # None
    /\ ps'.currentGroup[1].name = name
    /\ ps'.currentGroup[1].teams = <<>>
    /\ ps'.groupInDivision
    /\ ps'.currentTeam = None
    /\ ps'.currentDivision # None
    /\ ps'.currentDivision[1].id = ps.currentDivision[1].id

\* the scan opened a division of this name
DivisionOpened(name) ==
    /\ ps'.errors = ps.errors
    /\ ps'.currentDivision # None
    /\ ps'.currentDivision[1].name = name
    /\ ps'.currentDivision[1].groups = <<>>
    /\ ps'.currentGroup = None
    /\ ps'.currentTeam = None

\* the scan opened a direct group of this name, in no division
DirectGroupOpened(name) ==
    /\ ps'.errors = ps.errors
    /\ ps'.currentGroup # None
    /\ ps'.currentGroup[1].name = name
    /\ ps'.currentGroup[1].teams = <<>>
    /\ ~ps'.groupInDivision
    /\ ps'.currentDivision = None
    /\ ps'.currentTeam = None

Level3Scan(t) ==
    IF InDivision(i) THEN GroupOfDivisionOpened(HeadingName(t, 3))
    ELSE IF SeenLevel2(i) THEN TeamOpened(HeadingName(t, 3))
    ELSE RejectedScan

Level4Scan(t) ==
    IF GroupOpen(i) THEN TeamOpened(HeadingName(t, 4)) ELSE RejectedScan

\* the name after "Division:"
DivisionName(t) ==
    Trim(SubSeq(HeadingName(t, 2), Len("Division:") + 1, Len(HeadingName(t, 2))))

Level2Scan(t, division) ==
    IF division THEN DivisionOpened(DivisionName(t))
    ELSE DirectGroupOpened(HeadingName(t, 2))

\* C21 as stated: a level-3 heading opens a group of the open division, else
\* a team of the open direct group, else is an error; a level-4 heading opens
\* a team of the open group, else is an error; a level-2 heading starting
\* with "Division:" opens a division and any other level-2 heading opens a
\* direct group.
C21_HeadingDepthAsStated ==
    [][i' = i + 1 =>
          /\ IsHeading(Scanned(i + 1), 3) => Level3Scan(Scanned(i + 1))
          /\ IsHeading(Scanned(i + 1), 4) => Level4Scan(Scanned(i + 1))
          /\ IsHeading(Scanned(i + 1), 2) =>
                Level2Scan(Scanned(i + 1), IsDivisionHeading(Scanned(i + 1)))
      ]_vars

\* C21: a level-3 heading opens a new group of the current division when a
\* division is open, a new team of the current group when a direct group is
\* open and no division is, and is an error when neither is open; a level-4
\* heading opens a team of the current group and is an error when no group
\* is open; a level-2 heading "Division: <Name>" with a name after the
\* prefix (in any letter case) opens a division, and any other level-2
\* heading, "Division:" without a name included, opens a direct group that
\* belongs to no division.
C21_HeadingDepth ==
    [][i' = i + 1 =>
          /\ IsHeading(Scanned(i + 1), 3) => Level3Scan(Scanned(i + 1))
          /\ IsHeading(Scanned(i + 1), 4) => Level4Scan(Scanned(i + 1))
          /\ IsHeading(Scanned(i + 1), 2) =>
                Level2Scan(Scanned(i + 1), NamesDivision(Scanned(i + 1)))
      ]_vars

\* a team is open in a group of a division after a heading was rejected
C21_Witness ==
    /\ mdPc = "scan"
    /\ ps.currentDivision # None
    /\ ps.currentGroup # None
    /\ ps.groupInDivision
    /\ ps.currentTeam # None
    /\ Len(ps.errors) > 0

\* a level-3 heading opened a team of the direct group "Division:"
TeamUnderUnnamedDivision ==
    /\ mdPc = "scan"
    /\ ps.currentGroup # None
    /\ ps.currentGroup[1].name = "Division:"
    /\ ps.currentTeam # None


(***************************************************************************)
(* Properties of parseMarkdown: the tree of a document                     *)
(***************************************************************************)

HeadingLevel(t) ==
    IF IsHeading(t, 2) THEN 2 ELSE IF IsHeading(t, 3) THEN 3
    ELSE IF IsHeading(t, 4) THEN 4 ELSE 0

\* the elements of a set of numbers in ascending order
RECURSIVE Ascending(_)
Ascending(S) ==
    IF S = {} THEN <<>>
    ELSE LET least == CHOOSE m \in S : \A n \in S : m <= n
         IN  <<least>> \o Ascending(S \ {least})

\* the last line of what the heading at line n opens: the line before the
\* next heading of one of the levels, or the last line
ExtentEnd(n, levels) ==
    IF \E m \in (n + 1)..Len(lines) : HeadingLevel(Scanned(m)) \in levels
    THEN (CHOOSE m \in (n + 1)..Len(lines) :
             /\ HeadingLevel(Scanned(m)) \in levels
             /\ \A k \in (n + 1)..(m - 1) : HeadingLevel(Scanned(k)) \notin levels) - 1
    ELSE Len(lines)

\* the headings of the levels among the lines from..to, in document order
HeadingsIn(from, to, levels) ==
    Ascending({m \in from..to : HeadingLevel(Scanned(m)) \in levels})

\* the persons of the list items among the lines from..to, in document order
ItemPersons(from, to) ==
    Flatten([k \in 1..Len(Ascending({m \in from..to : IsListItem(Scanned(m))})) |->
        parsePersonLine(TrimStart(SubSeq(
            Scanned(Ascending({m \in from..to : IsListItem(Scanned(m))})[k]), 3,
            Len(Scanned(Ascending({m \in from..to : IsListItem(Scanned(m))})[k]))))).persons])

TeamAt(n) ==
    [name |-> HeadingName(Scanned(n), HeadingLevel(Scanned(n))),
     members |-> ItemPersons(n + 1, ExtentEnd(n, {2, 3, 4}))]

\* the teams of the group at line n: the headings of teamLevels up to the
\* end of the group
TeamsOf(n, end, teamLevels) ==
    [k \in 1..Len(HeadingsIn(n + 1, end, teamLevels)) |->
        TeamAt(HeadingsIn(n + 1, end, teamLevels)[k])]

GroupOfDivisionAt(n) ==
    [name |-> HeadingName(Scanned(n), 3), teams |-> TeamsOf(n, ExtentEnd(n, {2, 3}), {4})]

DivisionAt(n) ==
    [name |-> DivisionName(Scanned(n)),
     groups |-> [k \in 1..Len(HeadingsIn(n + 1, ExtentEnd(n, {2}), {3})) |->
                    GroupOfDivisionAt(HeadingsIn(n + 1, ExtentEnd(n, {2}), {3})[k])]]

DirectGroupAt(n) ==
    [name |-> HeadingName(Scanned(n), 2), teams |-> TeamsOf(n, ExtentEnd(n, {2}), {3, 4})]

DivisionLines == Ascending({m \in 1..Len(lines) : NamesDivision(Scanned(m))})

DirectGroupLines ==
    Ascending({m \in 1..Len(lines) :
                  HeadingLevel(Scanned(m)) = 2 /\ ~NamesDivision(Scanned(m))})

\* the divisions, groups, teams and persons the headings and list items of
\* the document describe, each under the heading that was open when it was read
DocumentTree ==
    [divisions |-> [k \in 1..Len(DivisionLines) |-> DivisionAt(DivisionLines[k])],
     groups |-> [k \in 1..Len(DirectGroupLines) |-> DirectGroupAt(DirectGroupLines[k])]]

TeamsTree(teams) ==
    [k \in 1..Len(teams) |->
        [name |-> teams[k].name,
         members |-> [m \in 1..Len(teams[k].members) |-> WithoutId(teams[k].members[m])]]]

GroupsTree(groups) ==
    [k \in 1..Len(groups) |-> [name |-> groups[k].name, teams |-> TeamsTree(groups[k].teams)]]

\* the names and the order of what a portfolio holds
PortfolioTree(p) ==
    [divisions |-> [k \in 1..Len(DivisionsOf(p)) |->
                      [name |-> DivisionsOf(p)[k].name,
                       groups |-> GroupsTree(DivisionsOf(p)[k].groups)]],
     groups |-> GroupsTree(p.groups)]

\* the identifiers of the divisions, groups and teams of a portfolio, one
\* entry per entity
RECURSIVE EntityIds(_)
EntityIds(entities) ==
    IF entities = <<>> THEN <<>>
    ELSE <<entities[1].id>>
         \o (IF "groups" \in DOMAIN entities[1] THEN EntityIds(entities[1].groups)
             ELSE IF "teams" \in DOMAIN entities[1] THEN EntityIds(entities[1].teams)
             ELSE <<>>)
         \o EntityIds(Tail(entities))

PortfolioEntityIds(p) == EntityIds(DivisionsOf(p)) \o EntityIds(p.groups)

NoRepeats(seq) == \A j \in 1..Len(seq) : \A k \in 1..Len(seq) : seq[j] = seq[k] => j = k

Decoded == result # None /\ result[1].portfolio # None

\* C22: for every document that decodes without error the returned tree is
\* the tree of the document: one division per division heading, one group
\* per group heading in the division that was open when it was read (or
\* among the direct groups), one team per team heading in the group that
\* was open, the persons of each list item in the team that was open, all
\* in document order, and no entity twice.
C22_CommitDiscipline ==
    Decoded =>
        /\ PortfolioTree(result[1].portfolio[1]) = DocumentTree
        /\ NoRepeats(PortfolioEntityIds(result[1].portfolio[1]))

\* a decoded document with a division of two groups and a direct group with
\* a team after it
C22_Witness ==
    /\ Decoded
    /\ result[1].portfolio[1].divisions # None
    /\ Len(result[1].portfolio[1].divisions[1][1].groups) = 2
    /\ Len(result[1].portfolio[1].groups) = 1
    /\ Len(result[1].portfolio[1].groups[1].teams) = 1

\* a decoded document whose team has the persons of two list items
TwoListItems ==
    /\ Decoded
    /\ \E g \in 1..Len(result[1].portfolio[1].groups) :
          \E t \in 1..Len(result[1].portfolio[1].groups[g].teams) :
              Len(result[1].portfolio[1].groups[g].teams[t].members) > 2


(***************************************************************************)
(* Properties of parseMarkdown: leadership roles                           *)
(***************************************************************************)

AllGroups(p) ==
    Flatten([k \in 1..Len(DivisionsOf(p)) |-> DivisionsOf(p)[k].groups]) \o p.groups

\* C23: in every portfolio returned by parseMarkdown the head of engineering
\* has role head_of_engineering, every principal engineer has role
\* principal_engineer, every group's manager has role engineering_manager
\* and every group-level staff engineer has role staff_engineer.
C23_LeadershipRoles ==
    Decoded =>
        /\ result[1].portfolio[1].headOfEngineering # None =>
              result[1].portfolio[1].headOfEngineering[1].role = "head_of_engineering"
        /\ \A k \in 1..Len(result[1].portfolio[1].principalEngineers) :
              result[1].portfolio[1].principalEngineers[k].role = "principal_engineer"
        /\ \A g \in 1..Len(AllGroups(result[1].portfolio[1])) :
              /\ AllGroups(result[1].portfolio[1])[g].manager # None =>
                    AllGroups(result[1].portfolio[1])[g].manager[1].role
                        = "engineering_manager"
              /\ \A k \in 1..Len(AllGroups(result[1].portfolio[1])[g].staffEngineers) :
                    AllGroups(result[1].portfolio[1])[g].staffEngineers[k].role
                        = "staff_engineer"

\* a returned portfolio whose leaders, written in the full form with the
\* role of their slot, have that role
LeadersInFullForm ==
    /\ Decoded
    /\ result[1].portfolio[1].headOfEngineering # None
    /\ result[1].portfolio[1].headOfEngineering[1].type = "contractor"
    /\ result[1].portfolio[1].headOfEngineering[1].role = "head_of_engineering"
    /\ Len(result[1].portfolio[1].groups) = 1
    /\ Len(result[1].portfolio[1].groups[1].staffEngineers) = 1
    /\ result[1].portfolio[1].groups[1].staffEngineers[1].role = "staff_engineer"

\* a returned portfolio whose manager is a senior engineer and whose staff
\* engineer is an unnamed engineer
ManagerWithWrittenRole ==
    /\ Decoded
    /\ Len(result[1].portfolio[1].groups) = 1
    /\ result[1].portfolio[1].groups[1].manager # None
    /\ result[1].portfolio[1].groups[1].manager[1].role = "senior_engineer"
    /\ result[1].portfolio[1].groups[1].manager[1].name = Some("Cy Young")
    /\ Len(result[1].portfolio[1].groups[1].staffEngineers) = 1
    /\ result[1].portfolio[1].groups[1].staffEngineers[1].role = "engineer"
    /\ result[1].portfolio[1].groups[1].staffEngineers[1].name = None


(***************************************************************************)
(* Properties of parseMarkdown: the onshore target                         *)
(***************************************************************************)

\* the level-1 heading of the document has the suffix "(N% onshore target)"
HasTargetSuffix ==
    \E n \in 1..Len(lines) :
        /\ IsHeading(Scanned(n), 1)
        /\ Includes(ToLower(Scanned(n)), "% onshore target)")
           \/ Includes(ToLower(Scanned(n)), "%  onshore target)")

\* C24: the onshoreTargetPercentage of every portfolio returned by
\* parseMarkdown is an integer between 0 and 100 inclusive, and 50 when the
\* level-1 heading has no "(N% onshore target)" suffix.
C24_OnshoreTargetRange ==
    Decoded =>
        /\ result[1].portfolio[1].onshoreTargetPercentage # None
        /\ result[1].portfolio[1].onshoreTargetPercentage[1] \in 0..100
        /\ ~HasTargetSuffix => result[1].portfolio[1].onshoreTargetPercentage[1] = 50

\* the target is a natural number, and 50 without the suffix
TargetIsNatural ==
    Decoded =>
        /\ result[1].portfolio[1].onshoreTargetPercentage # None
        /\ result[1].portfolio[1].onshoreTargetPercentage[1] \in Nat
        /\ ~HasTargetSuffix => result[1].portfolio[1].onshoreTargetPercentage[1] = 50

\* returned portfolios with the targets 0, 100, the default, and 150
TargetZero == Decoded /\ result[1].portfolio[1].onshoreTargetPercentage = Some(0)
TargetHundred == Decoded /\ result[1].portfolio[1].onshoreTargetPercentage = Some(100)
TargetDefault ==
    Decoded /\ ~HasTargetSuffix /\ result[1].portfolio[1].onshoreTargetPercentage = Some(50)
TargetAboveHundred == Decoded /\ result[1].portfolio[1].onshoreTargetPercentage = Some(150)

\* ------------------------------------------------------------------------
\* adjustSnapshot (PortfolioView.tsx): the edit of one cell of a planned
\* composition snapshot
\* ------------------------------------------------------------------------

MaxCount == 2

MathMax(a, b) == IF a < b THEN b ELSE a
MathMin(a, b) == IF a < b THEN a ELSE b

snapshotTotal(s) == s.onshore + s.nearshore + s.offshore

\* case 'onshore': the branch on offshore < 0 follows the Math.max(0, ...)
AdjustOnshore(snapshot, total, clamped) ==
    LET offshore == MathMax(0, total - clamped - snapshot.nearshore)
    IN  IF offshore < 0
        THEN [snapshot EXCEPT !.onshore = clamped,
                              !.nearshore = MathMax(0, total - clamped),
                              !.offshore = 0]
        ELSE [snapshot EXCEPT !.onshore = clamped, !.offshore = offshore]

\* case 'nearshore'
AdjustNearshore(snapshot, total, clamped) ==
    LET offshore == MathMax(0, total - snapshot.onshore - clamped)
    IN  IF offshore < 0
        THEN [snapshot EXCEPT !.nearshore = clamped,
                              !.onshore = MathMax(0, total - clamped),
                              !.offshore = 0]
        ELSE [snapshot EXCEPT !.nearshore = clamped, !.offshore = offshore]

\* adjustSnapshot for the fields other than 'total' (which goes to scaleSnapshot)
adjustSnapshot(snapshot, field, value) ==
    LET total == snapshotTotal(snapshot)
        clamped == MathMax(0, MathMin(value, total))
    IN  CASE field = "onshore" -> AdjustOnshore(snapshot, total, clamped)
          [] field = "nearshore" -> AdjustNearshore(snapshot, total, clamped)
          [] field = "employees" ->
                [snapshot EXCEPT !.employees = clamped, !.contractors = total - clamped]
          [] field = "seniorPlus" ->
                [snapshot EXCEPT !.seniorPlus = clamped, !.junior = total - clamped]
          [] OTHER -> snapshot

\* snapshots with non-negative counts, as deriveSnapshot and the edits leave them
Snapshots ==
    { [onshore |-> a, nearshore |-> b, offshore |-> c,
       employees |-> a + b + c, contractors |-> 0,
       seniorPlus |-> 0, junior |-> a + b + c] :
        a \in 0..MaxCount, b \in 0..MaxCount, c \in 0..MaxCount }

\* the editable rows of PeriodTable other than 'total'
EditedFields == {"onshore", "nearshore", "employees", "seniorPlus"}

\* Number(e.target.value): below zero, within the total, above the total
EditedValues == (0 - 1)..(3 * MaxCount + 1)

InitSnapshot ==
    /\ MdIdle
    /\ CsvIdle
    /\ NamesIdle
    /\ StoreIdle
    /\ VendorsIdle
    /\ callArgs \in [snapshot : Snapshots, field : EditedFields, value : EditedValues]
    /\ callResult = None

\* onChange of a cell: onUpdateSnapshot(pi, adjustSnapshot(period.planned, row.key, value))
CallAdjustSnapshot ==
    /\ callArgs # None
    /\ callResult = None
    /\ callResult' = Some(adjustSnapshot(callArgs.snapshot, callArgs.field, callArgs.value))
    /\ UNCHANGED <<callArgs, mdVars, csvVars, nameVars, storeVars, vendorVars>>

NextSnapshot == CallAdjustSnapshot

SpecSnapshot == InitSnapshot /\ [][NextSnapshot]_vars

\* ------------------------------------------------------------------------
\* Properties of adjustSnapshot
\* ------------------------------------------------------------------------

LocationEdited == callResult # None /\ callArgs.field \in {"onshore", "nearshore"}

LocationsNonNegative(s) == s.onshore >= 0 /\ s.nearshore >= 0 /\ s.offshore >= 0

\* C25: for every snapshot with non-negative counts and total
\* T = onshore + nearshore + offshore, adjustSnapshot on the field 'onshore'
\* or 'nearshore' with any number returns a snapshot whose onshore, nearshore
\* and offshore are all non-negative and still sum to T.
C25_LocationEditKeepsTotal ==
    LocationEdited =>
        /\ LocationsNonNegative(callResult[1])
        /\ snapshotTotal(callResult[1]) = snapshotTotal(callArgs.snapshot)

\* the other editable location of the edited one
OtherLocation(a) == IF a.field = "onshore" THEN a.snapshot.nearshore ELSE a.snapshot.onshore

\* the counts stay non-negative, and the total is kept exactly when the
\* clamped value and the other editable location fit into it
LocationEditKeepsTotalWhenFitting ==
    LocationEdited =>
        LET total == snapshotTotal(callArgs.snapshot)
            clamped == MathMax(0, MathMin(callArgs.value, total))
        IN  /\ LocationsNonNegative(callResult[1])
            /\ (snapshotTotal(callResult[1]) = total)
                    <=> (clamped + OtherLocation(callArgs) <= total)
            /\ snapshotTotal(callResult[1]) >= total

\* an edit whose value and other location exceed the total has been made
LocationEditAboveTotal ==
    /\ LocationEdited
    /\ callArgs.value + OtherLocation(callArgs) > snapshotTotal(callArgs.snapshot)
    /\ callArgs.value <= snapshotTotal(callArgs.snapshot)

\* ------------------------------------------------------------------------
\* Properties of analyseImport: the accounts of the report
\* ------------------------------------------------------------------------

\* the rows in the order of the team-groups
RowsByGroup == Flatten([g \in 1..Len(csvGroups) |-> csvGroups[g].rows])

SkippedRowsOf(report) == [k \in 1..Len(report.skippedRows) |-> report.skippedRows[k].row]

AddedOf(report) == Flatten([k \in 1..Len(report.teamChanges) |-> report.teamChanges[k].added])

\* the rows of the team-groups that are not among the skipped rows
RowsNotSkipped(report) ==
    LET IsNotSkipped(row) ==
            \A k \in 1..Len(report.skippedRows) : report.skippedRows[k].row # row
    IN  SelectSeq(RowsByGroup, IsNotSkipped)

\* the added entry is the entry of the row
IsAddedOf(change, row) ==
    /\ change.name = normaliseName(row.name)
    /\ change.role = row.role
    /\ change.location = row.location
    /\ change.vendor = row.vendor

\* the replacement writes to the team the change names
TargetsTeamOf(replacement, change, p) ==
    /\ replacement.portfolioId = p.id
    /\ \E k \in 1..Len(enumerateTeams(p)) :
          /\ enumerateTeams(p)[k].teamId = replacement.teamId
          /\ enumerateTeams(p)[k].groupId = replacement.groupId
          /\ enumerateTeams(p)[k].divisionId = replacement.divisionId
          /\ enumerateTeams(p)[k].teamName = change.match.appTeam
          /\ enumerateTeams(p)[k].groupName = change.match.appGroup
          /\ enumerateTeams(p)[k].divisionName = change.match.appDivision

\* C26: in the report of analyseImport every row returned by parseCsv is
\* accounted for exactly once, as one entry of the added list of a teamChange
\* or as one entry of skippedRows, so membersAdded + rowsSkipped is the number
\* of parsed rows; teamsMatched + teamsUnmatched is the number of team-groups;
\* and replacements holds one entry per teamChange, in the same order.
C26_RowAccounting ==
    csvPc = "done" =>
        LET rows == parseCsv(csvText)
            report == analysis[1].report
            replacements == analysis[1].replacements
            skipped == SkippedRowsOf(report)
            added == AddedOf(report)
            rest == RowsNotSkipped(report)
        IN  /\ Len(RowsByGroup) = Len(rows)
            /\ \A k \in 1..Len(rows) : \E j \in 1..Len(RowsByGroup) : RowsByGroup[j] = rows[k]
            /\ NoRepeats(rows)
            /\ NoRepeats(skipped)
            /\ \A k \in 1..Len(skipped) : \E j \in 1..Len(rows) : rows[j] = skipped[k]
            /\ Len(added) = Len(rest)
            /\ \A k \in 1..Len(added) : IsAddedOf(added[k], rest[k])
            /\ report.summary.membersAdded = Len(added)
            /\ report.summary.rowsSkipped = Len(skipped)
            /\ report.summary.membersAdded + report.summary.rowsSkipped = Len(rows)
            /\ report.summary.teamsMatched = Len(report.teamChanges)
            /\ report.summary.teamsUnmatched = Len(report.unmatchedTeams)
            /\ report.summary.teamsMatched + report.summary.teamsUnmatched = Len(csvGroups)
            /\ csvGroups = groupCsvRows(rows)
            /\ Len(replacements) = Len(report.teamChanges)
            /\ \A k \in 1..Len(replacements) :
                  TargetsTeamOf(replacements[k], report.teamChanges[k], importPortfolio)

\* a report with two matched team-groups, one of them with two added rows,
\* an unmatched team-group and a skipped row of a matched team-group
C26_Witness ==
    /\ csvPc = "done"
    /\ Len(analysis[1].report.teamChanges) >= 2
    /\ Len(analysis[1].report.unmatchedTeams) >= 1
    /\ \E c \in 1..Len(analysis[1].report.teamChanges) :
          Len(analysis[1].report.teamChanges[c].added) >= 2
    /\ Len(analysis[1].report.skippedRows) > analysis[1].report.unmatchedTeams[1].rowCount

\* ------------------------------------------------------------------------
\* Properties of the import: team-groups without engineer rows
\* ------------------------------------------------------------------------

\* no row of the team-group has a role that maps to engineer or senior_engineer
HasNoEngineerRow(csvGroup) ==
    \A k \in 1..Len(csvGroup.rows) : ~ImportedRole(csvGroup.rows[k])

\* the change is that of a team-group without engineer rows
ChangeWithoutEngineerRows(change) ==
    \E g \in 1..Len(csvGroups) :
        IsChangeOf(change, csvGroups[g]) /\ HasNoEngineerRow(csvGroups[g])

EngineersOf(p, teamId) == SelectSeq(ExistingTeam(p, teamId).members, IsEngineerMember)

\* C27: when a CSV team-group matches an existing team but contains no
\* engineer or senior-engineer row, no existing member of that team is slated
\* for removal, and the team's engineer and senior-engineer members are still
\* present after the replacements are applied.
C27_NoImportWithoutEngineers ==
    [][ApplyStep =>
        \A k \in 1..Len(analysis[1].report.teamChanges) :
            ChangeWithoutEngineerRows(analysis[1].report.teamChanges[k]) =>
                /\ analysis[1].report.teamChanges[k].removed = <<>>
                /\ EngineersOf(data'[1], analysis[1].replacements[k].teamId)
                     = EngineersOf(data[1], analysis[1].replacements[k].teamId)
      ]_vars

\* for a team-group without engineer rows every engineer and senior engineer
\* of the matched team is slated for removal and is gone after the
\* application, and the other members stay
WithoutEngineerRowsAllRemoved ==
    [][ApplyStep =>
        \A k \in 1..Len(analysis[1].report.teamChanges) :
            ChangeWithoutEngineerRows(analysis[1].report.teamChanges[k]) =>
                /\ Len(analysis[1].report.teamChanges[k].removed)
                     = Len(EngineersOf(data[1], analysis[1].replacements[k].teamId))
                /\ analysis[1].report.teamChanges[k].added = <<>>
                /\ EngineersOf(data'[1], analysis[1].replacements[k].teamId) = <<>>
                /\ ExistingTeam(data'[1], analysis[1].replacements[k].teamId).members
                     = SelectSeq(ExistingTeam(data[1],
                                              analysis[1].replacements[k].teamId).members,
                                 IsKeptMember)
      ]_vars

\* an import of a team-group without engineer rows has emptied a team of its
\* engineers
EngineersLostWithoutRows ==
    /\ step = "closed"
    /\ \E k \in 1..Len(analysis[1].report.teamChanges) :
          /\ ChangeWithoutEngineerRows(analysis[1].report.teamChanges[k])
          /\ EngineersOf(LastOf(runs).before[1], analysis[1].replacements[k].teamId) # <<>>
          /\ EngineersOf(data[1], analysis[1].replacements[k].teamId) = <<>>

\* ------------------------------------------------------------------------
\* Properties of parseCsv: line numbers
\* ------------------------------------------------------------------------

\* the row is the row of the line at position n of the lines
IsRowOfLineAt(row, lns, n) ==
    /\ n \in 1..Len(lns)
    /\ HasSevenFields(lns[n])
    /\ WithoutLineNumber(row) = FixedEnds(FieldsOf(lns[n]), Len(FieldsOf(lns[n])))

LineNumbersIncrease(rows) ==
    \A j \in 1..Len(rows) : \A k \in 1..Len(rows) :
        j < k => rows[j].lineNumber < rows[k].lineNumber

\* C28: for every row returned by parseCsv, lineNumber is the 1-based
\* position of the row's line in the input text, counting the blank lines and
\* the dropped lines before it, and the line numbers are strictly increasing
\* along the returned rows.
C28_LineNumbersArePositions ==
    csvPc \in {"groups", "done"} =>
        /\ \A k \in 1..Len(parseCsv(csvText)) :
              IsRowOfLineAt(parseCsv(csvText)[k], Split(csvText, "\n"),
                            parseCsv(csvText)[k].lineNumber)
        /\ LineNumbersIncrease(parseCsv(csvText))

\* lineNumber is the position of the row's line among the non-blank lines of
\* the text: the dropped lines before it are counted, the blank lines are not
LineNumbersCountNonBlankLines ==
    csvPc \in {"groups", "done"} =>
        /\ \A k \in 1..Len(parseCsv(csvText)) :
              IsRowOfLineAt(parseCsv(csvText)[k], NonBlankLines(csvText),
                            parseCsv(csvText)[k].lineNumber)
        /\ LineNumbersIncrease(parseCsv(csvText))

\* a row after a dropped line, which its line number counts; a row after a
\* blank line
RowAfterDroppedLine ==
    /\ csvPc = "done"
    /\ \E k \in 1..Len(parseCsv(csvText)) : parseCsv(csvText)[k].lineNumber > k

RowAfterBlankLine ==
    /\ csvPc = "done"
    /\ \E k \in 1..Len(parseCsv(csvText)) :
          \E n \in 1..(parseCsv(csvText)[k].lineNumber) :
              ~IsNonBlank(Split(csvText, "\n")[n])

\* ------------------------------------------------------------------------
\* similarityScore and scoreMatch applied to one pair of names
\* ------------------------------------------------------------------------

\* empty names, names that normalise to the empty string, equal names up to
\* case, contained names, names with shared tokens and unrelated names
SimilarityNames ==
    {"", "  ", "!?", "Core", "core", "Core Services", "Data & Tax", "Tax-Data",
     "Platform", "Zebra"}

InitSimilarity ==
    /\ MdIdle
    /\ CsvIdle
    /\ NamesIdle
    /\ StoreIdle
    /\ VendorsIdle
    /\ callArgs \in [a : SimilarityNames, b : SimilarityNames]
    /\ callResult = None

\* similarityScore(a, b)
CallSimilarityScore ==
    /\ callArgs # None
    /\ callResult = None
    /\ callResult' = Some([of |-> "similarityScore",
                           score |-> similarityScore(callArgs.a, callArgs.b)])
    /\ UNCHANGED <<callArgs, mdVars, csvVars, nameVars, storeVars, vendorVars>>

\* the team-group of a CSV row whose group and team are both written as a
BlankableTeamGroup(a) ==
    groupCsvRows(parseCsv("Retail," \o a \o "," \o a \o ",Engineer,Onshore,M&S,Al Roe"))[1]

\* a team named b in a direct group named b, without a manager
TeamLocationNamed(b) ==
    [divisionId |-> None, divisionName |-> None, groupId |-> 5, groupName |-> b,
     teamId |-> 11, teamName |-> b, managerName |-> None]

\* scoreMatch(csvTeamGroup, appTeam) in the loop of analyseImport
CallScoreMatchOfNames ==
    /\ callArgs # None
    /\ callResult = None
    /\ callResult' = Some([of |-> "scoreMatch",
                           score |-> scoreMatch(BlankableTeamGroup(callArgs.a),
                                                TeamLocationNamed(callArgs.b)).score])
    /\ UNCHANGED <<callArgs, mdVars, csvVars, nameVars, storeVars, vendorVars>>

NextSimilarity == CallSimilarityScore \/ CallScoreMatchOfNames

SpecSimilarity == InitSimilarity /\ [][NextSimilarity]_vars

\* ------------------------------------------------------------------------
\* Properties of similarityScore
\* ------------------------------------------------------------------------

\* exactly one of the two names normalises to the empty string
OneBlankName ==
    /\ callArgs # None
    /\ callArgs \in [a : SimilarityNames, b : SimilarityNames]
    /\ (normalise(callArgs.a) = "") # (normalise(callArgs.b) = "")

\* C29: similarityScore(a, b) is 0 whenever exactly one of a and b
\* normalises to the empty string, so a CSV row with an empty group or team
\* name gets no team-name or context credit against any non-empty existing
\* name.
C29_BlankNamesEarnNothing ==
    (callResult # None /\ OneBlankName) => callResult[1].score = FZero

\* with exactly one blank name similarityScore returns the containment
\* score of a string of length 0, 0.7; a blank team and group name earn
\* 0.7 * 0.55 + 0.7 * 0.30, which is not below the threshold
BlankNamesEarnContainment ==
    (callResult # None /\ OneBlankName) =>
        /\ callResult[1].of = "similarityScore" =>
              callResult[1].score = FAdd(FRatio(7, 10), FMul(FRatio(3, 10), FZero))
        /\ callResult[1].of = "scoreMatch" =>
              /\ callResult[1].score
                    = FAdd(FAdd(FMul(FRatio(7, 10), FRatio(55, 100)),
                                FMul(FRatio(7, 10), FRatio(30, 100))), FZero)
              /\ ~FLess(callResult[1].score, MATCH_THRESHOLD)

\* two names without a common token, neither blank, score 0
UnrelatedNamesEarnNothing ==
    /\ callResult # None
    /\ callArgs \in [a : SimilarityNames, b : SimilarityNames]
    /\ normalise(callArgs.a) # ""
    /\ normalise(callArgs.b) # ""
    /\ callResult[1].score = FZero

\* a blank team-group name was scored against a named team
BlankTeamGroupScored ==
    /\ callResult # None
    /\ OneBlankName
    /\ normalise(callArgs.a) = ""
    /\ callResult[1].of = "scoreMatch"

\* ------------------------------------------------------------------------
\* The vendor colours: vendorHash, collectVendorsFromAll, buildVendorColourMap
\* ------------------------------------------------------------------------

VENDOR_PALETTE ==
    <<"bg-orange-500", "bg-cyan-600", "bg-rose-500", "bg-amber-500",
      "bg-lime-600", "bg-fuchsia-600", "bg-emerald-600", "bg-sky-500">>

NO_VENDOR_COLOUR == "bg-gray-900"

\* the characters of code 32 to 95, in the order of their codes; the small
\* letters have the codes 97 to 122
CodeUnits ==
    " !\"#$%&'()*+,-./0123456789:;<=>?@ABCDEFGHIJKLMNOPQRSTUVWXYZ[\\]^_"

\* String.prototype.charCodeAt for one character
CharCodeOf(c) ==
    IF c \in LowerSet THEN 96 + FirstPos(LowerAlpha, c) ELSE 31 + FirstPos(CodeUnits, c)

\* a 32-bit integer as its two 16-bit halves, and back as a signed value
HighHalf(h) == (h \div 65536) % 65536
LowHalf(h) == h % 65536
Int32Of(hi, lo) == IF hi >= 32768 THEN (hi - 65536) * 65536 + lo ELSE hi * 65536 + lo

\* ((h << 5) - h + code) | 0, computed on the halves of a known h
HashStepOf(h, code) ==
    LET shiftedLo == (LowHalf(h) * 32) % 65536
        shiftedHi == (HighHalf(h) * 32 + (LowHalf(h) * 32) \div 65536) % 65536
        lo == shiftedLo - LowHalf(h) + code
        hi == shiftedHi - HighHalf(h) + (lo \div 65536)
    IN  Int32Of(hi % 65536, lo % 65536)

\* the body of the loop of vendorHash; the hash so far is evaluated once
HashStep(h, code) == CHOOSE next \in {HashStepOf(x, code) : x \in {h}} : TRUE

\* the loop of vendorHash from character k with the hash h
RECURSIVE HashFrom(_, _, _)
HashFrom(vendor, k, h) ==
    IF k > Len(vendor) THEN h
    ELSE HashFrom(vendor, k + 1, HashStep(h, CharCodeOf(CharAt(vendor, k))))

\* the remainder operator of JavaScript: the sign of the dividend
Remainder(a, n) == IF a < 0 /\ a % n # 0 THEN (a % n) - n ELSE a % n

\* ((h % length) + length) % length
PaletteIndex(h) ==
    Remainder(Remainder(h, Len(VENDOR_PALETTE)) + Len(VENDOR_PALETTE), Len(VENDOR_PALETTE))

vendorHash(vendor) == CHOOSE index \in {PaletteIndex(h) : h \in {HashFrom(vendor, 1, 0)}} : TRUE

\* the order of Array.prototype.sort without a comparator: by code units
RECURSIVE CodeUnitLess(_, _)
CodeUnitLess(a, b) ==
    IF b = "" THEN FALSE
    ELSE IF a = "" THEN TRUE
    ELSE IF CharAt(a, 1) # CharAt(b, 1)
    THEN CharCodeOf(CharAt(a, 1)) < CharCodeOf(CharAt(b, 1))
    ELSE CodeUnitLess(Tail(a), Tail(b))

\* the number of strings of S before each string of S in that order
RanksOf(S) == [a \in S |-> Cardinality({b \in S : CodeUnitLess(b, a)})]

\* the strings of S in that order: the k-th has k - 1 strings before it
SortedStrings(S) ==
    CHOOSE sorted \in {[k \in 1..Cardinality(S) |-> CHOOSE a \in S : rank[a] = k - 1] :
                          rank \in {RanksOf(S)}} : TRUE

\* scan over a list of persons, and over a person that may be absent
VendorsAmong(persons) ==
    {persons[k].vendor[1] : k \in {j \in 1..Len(persons) : Truthy(persons[j].vendor)}}

VendorsOfGroup(g) ==
    VendorsAmong(g.manager)
    \cup VendorsAmong(g.staffEngineers)
    \cup UNION {VendorsAmong(g.teams[k].members) : k \in 1..Len(g.teams)}

VendorsOfPortfolio(p) ==
    VendorsAmong(p.headOfEngineering)
    \cup VendorsAmong(p.principalEngineers)
    \cup UNION {UNION {VendorsOfGroup(DivisionsOrEmpty(p)[d].groups[k]) :
                          k \in 1..Len(DivisionsOrEmpty(p)[d].groups)} :
                   d \in 1..Len(DivisionsOrEmpty(p))}
    \cup UNION {VendorsOfGroup(p.groups[k]) : k \in 1..Len(p.groups)}

\* the Set of the scan, then Array.from(vendors).sort()
ScannedVendors(portfolios) ==
    UNION {VendorsOfPortfolio(portfolios[k]) : k \in 1..Len(portfolios)}

collectVendorsFromAll(portfolios) ==
    CHOOSE sorted \in {SortedStrings(S) : S \in {ScannedVendors(portfolios)}} : TRUE

\* Map.prototype.set on a map held as a set of <<key, value>>
MapSet(map, key, value) == {e \in map : e[1] # key} \cup {<<key, value>>}

MaxVendors == 9

\* vendor names, some with the same hash, some long enough for the hash to
\* leave the 32-bit range
VendorPool ==
    {"TCS", "Acme", "Wipro", "Infosys", "Cognizant", "Accenture", "HCL", "EPAM",
     "Capgemini", "Globant"}

RECURSIVE ContractorsOf(_, _)
ContractorsOf(S, id) ==
    IF S = {} THEN <<>>
    ELSE LET v == CHOOSE a \in S : \A b \in S \ {a} : CodeUnitLess(b, a)
         IN  <<ContractMember(id, Some("Al Roe"), "engineer", "offshore", v)>>
             \o ContractorsOf(S \ {v}, id + 1)

\* a portfolio whose team Core has one contractor of each vendor of S
StaffedPortfolio(S) ==
    [id |-> 1, name |-> "Retail", onshoreTargetPercentage |-> None,
     headOfEngineering |-> None, principalEngineers |-> <<>>, divisions |-> None,
     groups |-> <<[id |-> 5, name |-> "Platform", manager |-> None, managedBy |-> None,
                   staffEngineers |-> <<>>,
                   teams |-> <<[id |-> 11, name |-> "Core",
                                members |-> ContractorsOf(S, 40)]>>]>>]

VendorSets == {S \in SUBSET VendorPool : Cardinality(S) <= MaxVendors}

InitVendors ==
    /\ MdIdle
    /\ CsvIdle
    /\ NamesIdle
    /\ StoreIdle
    /\ CallIdle
    /\ allPortfolios \in {<<StaffedPortfolio(S), OtherPortfolio>> : S \in VendorSets}
    /\ vendors = <<>>
    /\ vi = 0
    /\ slot = None
    /\ usedSlots = {}
    /\ colourMap = {}
    /\ vendorPc = "start"

\* lines 756-758
CollectVendors ==
    /\ vendorPc = "start"
    /\ vendors' = collectVendorsFromAll(allPortfolios)
    /\ vendorPc' = "loop"
    /\ UNCHANGED <<allPortfolios, vi, slot, usedSlots, colourMap,
                   mdVars, csvVars, nameVars, storeVars, callVars>>

\* let slot = vendorHash(v) for the next vendor
HashVendor ==
    /\ vendorPc = "loop"
    /\ slot = None
    /\ vi < Len(vendors)
    /\ slot' = Some(vendorHash(vendors[vi + 1]))
    /\ UNCHANGED <<allPortfolios, vendors, vi, usedSlots, colourMap, vendorPc,
                   mdVars, csvVars, nameVars, storeVars, callVars>>

\* one turn of while (usedSlots.has(slot))
ProbeForward ==
    /\ vendorPc = "loop"
    /\ slot # None
    /\ slot[1] \in usedSlots
    /\ slot' = Some((slot[1] + 1) % Len(VENDOR_PALETTE))
    /\ UNCHANGED <<allPortfolios, vendors, vi, usedSlots, colourMap, vendorPc,
                   mdVars, csvVars, nameVars, storeVars, callVars>>

\* the exit of the while loop: usedSlots.add(slot); map.set(v, VENDOR_PALETTE[slot])
PlaceVendor ==
    /\ vendorPc = "loop"
    /\ slot # None
    /\ slot[1] \notin usedSlots
    /\ usedSlots' = usedSlots \cup {slot[1]}
    /\ colourMap' = MapSet(colourMap, Some(vendors[vi + 1]), VENDOR_PALETTE[slot[1] + 1])
    /\ vi' = vi + 1
    /\ slot' = None
    /\ UNCHANGED <<allPortfolios, vendors, vendorPc,
                   mdVars, csvVars, nameVars, storeVars, callVars>>

\* map.set(undefined, NO_VENDOR_COLOUR); return map
ReturnColourMap ==
    /\ vendorPc = "loop"
    /\ slot = None
    /\ vi = Len(vendors)
    /\ colourMap' = MapSet(colourMap, None, NO_VENDOR_COLOUR)
    /\ vendorPc' = "done"
    /\ UNCHANGED <<allPortfolios, vendors, vi, slot, usedSlots,
                   mdVars, csvVars, nameVars, storeVars, callVars>>

NextVendors ==
    \/ CollectVendors
    \/ HashVendor
    \/ ProbeForward
    \/ PlaceVendor
    \/ ReturnColourMap

SpecVendors == InitVendors /\ [][NextVendors]_vars

\* the call runs on: a statement that can be executed is executed
SpecVendorsFair == SpecVendors /\ WF_vars(NextVendors)

\* ------------------------------------------------------------------------
\* Properties of buildVendorColourMap
\* ------------------------------------------------------------------------

\* the vendor names the persons of the portfolios carry
VendorsPresent ==
    UNION {VendorsOfPortfolio(allPortfolios[k]) : k \in 1..Len(allPortfolios)}

EveryVendorHasEntry == \A v \in VendorsPresent : \E e \in colourMap : e[1] = Some(v)

\* C30: buildVendorColourMap terminates for every list of portfolios,
\* whatever the number of distinct vendor names they contain (more than the
\* 8 palette slots included), and returns a map holding an entry for every
\* vendor.
C30_ColourMapTerminates == <>(vendorPc = "done" /\ EveryVendorHasEntry)

\* with at most as many vendors as palette slots the call returns
ReturnsWithinPalette ==
    (vendorPc = "loop" /\ Len(vendors) <= Len(VENDOR_PALETTE)) ~> (vendorPc = "done")

\* the returned map has one entry per vendor and one for undefined; the
\* vendors have different colours of the palette
ReturnedColourMap ==
    vendorPc = "done" =>
        /\ EveryVendorHasEntry
        /\ <<None, NO_VENDOR_COLOUR>> \in colourMap
        /\ Cardinality(colourMap) = Cardinality(VendorsPresent) + 1
        /\ \A e \in colourMap : \A f \in colourMap : e[2] = f[2] => e = f
        /\ Cardinality(VendorsPresent) <= Len(VENDOR_PALETTE)

\* the probe loop with every slot used: the ninth vendor
ProbingWithoutFreeSlot ==
    /\ vendorPc = "loop"
    /\ slot # None
    /\ usedSlots = 0..(Len(VENDOR_PALETTE) - 1)

\* from there the call never returns
NoReturnWithoutFreeSlot == [](ProbingWithoutFreeSlot => [](vendorPc # "done"))

\* a call with eight vendors and collisions has returned
ReturnedFullPalette == vendorPc = "done" /\ Cardinality(VendorsPresent) = Len(VENDOR_PALETTE)

====
